---- MODULE Spec2Model ----
(***************************************************************************)
(* The worker pool of the clean-up scripts: a ThreadWrapper that owns a    *)
(* list of worker threads (BuildDeleter, ArtifactMover, ArtifactDeleter,   *)
(* FilePoster share one run loop) draining a queue.Queue, and the driver   *)
(* main() that populates the queue, starts the pool, polls it, forwards a  *)
(* KeyboardInterrupt and joins.                                            *)
(***************************************************************************)
EXTENDS Integers, Sequences, FiniteSets, TLC

\* ------------------------------------------------------------------ bounds
MaxItems == 3
MaxThreads == 2
MaxInterrupts == 2
MaxCalls == 3
MaxDesired == 2
MaxCurrent == 2
MaxRounds == 2
MaxLocals == 2
MaxVirtuals == 2
MaxRuns == 2
MaxBuilds == 3

VARIABLES
    caller,          \* "main": the script's main(); "client": any caller of the pool's methods
    kind,            \* the thread class handed to the ThreadWrapper
    item_is_record,  \* the queued items are the dicts the action subscripts (not bare keys)
    login_data,      \* the context dict shared by all workers (other_data)
    sent,            \* sent[i]: the HTTP requests issued for item i, in order
    number_threads,  \* ThreadWrapper.number_threads
    work_queue,      \* the queue.Queue: a sequence of items, head first
    inserted,        \* number of put() calls made so far
    removed,         \* number of successful get_nowait() calls so far
    threads,         \* ThreadWrapper._threads: one record per thread object
    drv,             \* position of the driver thread
    idx,             \* the driver's index in the `for thread in self._threads` loop it is in
    alive_ret,       \* last value returned by any_threads_alive ("none" before the first call)
    sigints,         \* KeyboardInterrupts delivered so far
    api_calls,       \* method calls made by the client so far
    stop_calls,      \* stop_threads calls that have returned
    stopped_upto,    \* length of the thread list the last returned stop_threads call went through
    join_called,     \* join_threads has been entered
    attempts,        \* attempts[i]: number of times the per-item action was invoked on item i
    finished,        \* items for which the action returned and task_done() was called
    raisedOn,        \* items whose action raised an exception
    emptySeen,       \* workers that caught queue.Empty
    stopSeen,        \* workers whose loop condition read _shutdown = True
    ekind,           \* create-curation-policies: "condition" or "policy" entities
    input_list,      \* the desired entities loaded from the JSON file
    current_list,    \* the entities list_conditions / list_policies returned (dicts, mutable)
    server,          \* the entities the server holds
    to_update,       \* the update list compare_* returned
    to_create,       \* the create list compare_* returned
    rstage,          \* "listed", "compared", "raised", "applied" ("idle": no reconciliation)
    rpos,            \* entries of to_update followed by to_create already sent
    round,           \* number of the reconciliation run
    requests,        \* the PUT and POST requests issued since the lists were read
    repos,           \* local-to-federated: the repository configurations the server holds
    all_repos,       \* what get_repository_configurations returned to this run
    local_repos,     \* main()'s dict of local repositories, in insertion order
    fstage,          \* the loop main() is in: "create" or "update" ("idle": script not run)
    fpos,            \* iterations of that loop already done
    runs,            \* number of the run of the script
    fcalls,          \* the PUT and POST requests this run has issued
    builds_to_delete_list,  \* build-cleanup: the list get_old_builds returned
    builds_to_delete,       \* the dict reorganise_builds returned (values, insertion order)
    cqueue,          \* the items main() has put in work_queue and no worker has taken
    handed,          \* the items handed to del_empty_build, in order
    crashed,         \* workers an exception has ended
    cstage,          \* "listed", "queueing", "running" ("idle": script not run)
    tmp_post_count,  \* random-file-generator: main()'s last sum of the workers' post_count
    input_data,      \* create-curation-policies main(): the content of the JSON file
    other_entities,  \* the entities of the other kind the server holds
    runner,          \* random-file-generator: the globals COUNT_RUNNER and SIZE_RUNNER and
                     \* the gen_numbers call under way (its arguments, its list)
    reader,          \* a RandomDataGenerator object and what its caller has got from it
    conversion       \* federated-to-local: main()'s variables, the server's repositories
                     \* and the requests issued

ReconcileVars == << ekind, input_list, current_list, server, to_update, to_create, rstage,
                   rpos, round, requests >>

PoolVars == << caller, kind, item_is_record, login_data, sent, number_threads, work_queue,
              inserted, removed, threads, drv, idx, alive_ret, sigints, api_calls,
              stop_calls, stopped_upto, join_called, attempts, finished, raisedOn,
              emptySeen, stopSeen >>

FederateVars == << repos, all_repos, local_repos, fstage, fpos, runs, fcalls >>

CleanupVars == << builds_to_delete_list, builds_to_delete, cqueue, handed, crashed, cstage >>

GeneratorVars == << tmp_post_count >>

CurationVars == << input_data, other_entities >>

LastScriptVars == << runner, reader, conversion >>

MoreScriptVars == << GeneratorVars, CurationVars, LastScriptVars >>

ScriptVars == << FederateVars, CleanupVars, MoreScriptVars >>

vars == << PoolVars, ReconcileVars, ScriptVars >>

\* ------------------------------------------------------------ thread objects
Workers == 1..Len(threads)

\* BuildDeleter.__init__: a thread object that has not been started.
NewThread == [pc |-> "new", shutdown |-> FALSE, held |-> 0, calls |-> 0]

\* threading.Thread.is_alive(): started and run() has not ended.
is_alive(t) == t.pc \in {"check", "get", "action"}

\* run() has ended, by returning or by an exception that left it.
Terminated(t) == t.pc \in {"ended", "crashed"}

AllTerminated == \A w \in Workers : Terminated(threads[w])

stop_toggle(t) == [t EXCEPT !.shutdown = ~t.shutdown]

\* BuildDeleter.stop: self._shutdown = True
stop(t) == [t EXCEPT !.shutdown = TRUE]

get_nowait_peek(q) ==
    IF q = << >> THEN [empty |-> TRUE, item |-> 0, rest |-> q]
    ELSE [empty |-> FALSE, item |-> Head(q), rest |-> q]

get_nowait_last(q) ==
    IF q = << >> THEN [empty |-> TRUE, item |-> 0, rest |-> q]
    ELSE [empty |-> FALSE, item |-> q[Len(q)], rest |-> SubSeq(q, 1, Len(q) - 1)]

\* queue.Queue.get_nowait: remove and return the head, or raise queue.Empty.
get_nowait(q) ==
    IF q = << >> THEN [empty |-> TRUE, item |-> 0, rest |-> q]
    ELSE [empty |-> FALSE, item |-> Head(q), rest |-> Tail(q)]

loop_condition_ignores_flag(t) == TRUE

\* `while not self._shutdown`
loop_condition(t) == ~t.shutdown

on_empty_retry(t) == [t EXCEPT !.pc = "check"]

\* `except queue.Empty: self.stop(); break`
on_empty(t) == [stop(t) EXCEPT !.pc = "ended"]

\* What a state holds besides the driver's position.
\* What no step of the pool or of its driver changes.
ConfigVars == << ReconcileVars, ScriptVars, caller, kind, item_is_record, number_threads >>

DriverVars == << ConfigVars, drv, idx, alive_ret, sigints, api_calls,
                 stop_calls, stopped_upto, join_called, inserted >>

\* Where a method returns to: main() continues at `next`, a client is free again.
Ret(next) == IF caller = "main" THEN next ELSE "client"

\* ----------------------------------------------------------- action adapters
\* The worker classes: BuildDeleter (build-cleanup-old-aql), ArtifactDeleter and
\* ArtifactMover (repo-cleanup-move-or-delete-artifacts), FilePoster
\* (random-file-generator, attempt_read_and_write).
Kinds == {"BuildDeleter", "ArtifactDeleter", "ArtifactMover", "FilePoster"}

\* The context main() builds for a worker class: config_data with dry_run,
\* arti_token, arti_host, and move_to_repo when artifacts are moved; FilePoster's
\* login_data holds token and host only.
Context(k, dry) ==
    CASE k = "ArtifactMover" ->
            [dry_run |-> dry, arti_token |-> "token", arti_host |-> "host",
             move_to_repo |-> "dest"]
      [] k = "FilePoster" -> [token |-> "token", host |-> "host"]
      [] OTHER -> [dry_run |-> dry, arti_token |-> "token", arti_host |-> "host"]

\* The effect of a call: the context after it, the requests it issued, and whether
\* an exception left it.
Effect(ld, reqs, exc) == [ctx |-> ld, sent |-> reqs, raised |-> exc]

make_api_request_keeps_header(ld, method, fails) ==
    Effect([ld EXCEPT !.arti_token = "Bearer token"], << method >>, fails)

\* make_api_request: one request; HTTPError and URLError are caught and logged,
\* any other exception (fails) leaves the function. login_data is only read.
make_api_request(ld, method, fails) == Effect(ld, << method >>, fails)

\* del_empty_build: the DELETE is skipped under dry_run.
del_empty_build(ld, fails) ==
    IF ld.dry_run = FALSE THEN make_api_request(ld, "DELETE", fails)
    ELSE Effect(ld, << >>, FALSE)

\* create_directory: the PUT is skipped under dry_run.
create_directory(ld, fails) ==
    IF ld.dry_run = FALSE THEN make_api_request(ld, "PUT", fails)
    ELSE Effect(ld, << >>, FALSE)

\* move_artifact: the POST is skipped under dry_run.
move_artifact(ld, fails) ==
    IF ld.dry_run = FALSE THEN make_api_request(ld, "POST", fails)
    ELSE Effect(ld, << >>, FALSE)

delete_artifact_no_dry_run(ld, fails) == make_api_request(ld, "DELETE", fails)

\* delete_artifact: the DELETE is skipped under dry_run.
delete_artifact(ld, fails) ==
    IF ld.dry_run = FALSE THEN make_api_request(ld, "DELETE", fails)
    ELSE Effect(ld, << >>, FALSE)

\* FilePoster.run: requests.put, whatever the context; an exception of requests
\* (fails) is not caught.
requests_put(ld, fails) == Effect(ld, << "PUT" >>, fails)

\* ArtifactMover.run: create_directory, then move_artifact.
move_item(ld, f1, f2) ==
    LET a == create_directory(ld, f1) IN
    IF a.raised THEN a
    ELSE LET b == move_artifact(a.ctx, f2) IN Effect(b.ctx, a.sent \o b.sent, b.raised)

\* The body of run() between get_nowait and task_done, for each worker class.
\* Every class subscripts the item first (build_to_delete["numbers"],
\* item["repo"], tmp_file_meta['size']): a bare key raises TypeError there.
process(k, ld, is_record, f1, f2) ==
    IF ~is_record THEN Effect(ld, << >>, TRUE)
    ELSE CASE k = "BuildDeleter" -> del_empty_build(ld, f1)
           [] k = "ArtifactDeleter" -> delete_artifact(ld, f1)
           [] k = "ArtifactMover" -> move_item(ld, f1, f2)
           [] k = "FilePoster" -> requests_put(ld, f1)

\* ------------------------------------------------------------------ workers
\* run(), the loop test.
run_check(w) ==
    /\ w \in Workers
    /\ threads[w].pc = "check"
    /\ IF loop_condition(threads[w])
       THEN /\ threads' = [threads EXCEPT ![w].pc = "get"]
            /\ UNCHANGED stopSeen
       ELSE /\ threads' = [threads EXCEPT ![w].pc = "ended"]
            /\ stopSeen' = stopSeen \cup {w}
    /\ UNCHANGED << DriverVars, work_queue, removed, attempts, finished, raisedOn,
                    emptySeen, login_data, sent >>

\* run(), the non-blocking dequeue.
run_get(w) ==
    /\ w \in Workers
    /\ threads[w].pc = "get"
    /\ LET g == get_nowait(work_queue) IN
       IF g.empty
       THEN /\ threads' = [threads EXCEPT ![w] = on_empty(threads[w])]
            /\ emptySeen' = emptySeen \cup {w}
            /\ UNCHANGED << work_queue, removed >>
       ELSE /\ threads' = [threads EXCEPT ![w].pc = "action", ![w].held = g.item]
            /\ work_queue' = g.rest
            /\ removed' = removed + 1
            /\ UNCHANGED emptySeen
    /\ UNCHANGED << DriverVars, attempts, finished, raisedOn, stopSeen, login_data, sent >>

\* run(), the per-item action and task_done(). The action returns (also when
\* make_api_request caught an HTTPError or URLError), or raises any other
\* exception, which nothing in run() catches: the thread ends.
run_action(w) ==
    /\ w \in Workers
    /\ threads[w].pc = "action"
    /\ LET i == threads[w].held IN
       /\ attempts' = [attempts EXCEPT ![i] = @ + 1]
       /\ \E f1, f2 \in BOOLEAN :
            LET e == process(kind, login_data, item_is_record, f1, f2) IN
            /\ login_data' = e.ctx
            /\ sent' = [sent EXCEPT ![i] = @ \o e.sent]
            /\ IF e.raised
               THEN /\ threads' = [threads EXCEPT ![w].pc = "crashed",
                                                  ![w].calls = @ + 1]
                    /\ raisedOn' = raisedOn \cup {i}
                    /\ UNCHANGED finished
               ELSE /\ threads' = [threads EXCEPT ![w].pc = "check", ![w].held = 0,
                                                  ![w].calls = @ + 1]
                    /\ finished' = finished \cup {i}
                    /\ UNCHANGED raisedOn
    /\ UNCHANGED << DriverVars, work_queue, removed, emptySeen, stopSeen >>

run(w) == run_check(w) \/ run_get(w) \/ run_action(w)

\* --------------------------------------------------------- pool operations
WorkerVars == << work_queue, removed, attempts, finished, raisedOn, emptySeen, stopSeen,
                login_data, sent >>

\* start_threads, first loop: append number_threads new thread objects.
start_threads_append ==
    /\ drv = "start_threads"
    /\ threads' = threads \o [k \in 1..number_threads |-> NewThread]
    /\ drv' = "starting"
    /\ idx' = 1
    /\ UNCHANGED << ConfigVars, alive_ret, sigints, api_calls, stop_calls,
                    stopped_upto, join_called, inserted, WorkerVars >>

\* start_threads, second loop: thread.start() on every thread of the list;
\* Thread.start() raises RuntimeError on a thread that was started before.
start_threads_start ==
    /\ drv = "starting"
    /\ IF idx > Len(threads)
       THEN /\ drv' = Ret("any_threads_alive")
            /\ idx' = 1
            /\ UNCHANGED threads
       ELSE IF threads[idx].pc = "new"
       THEN /\ threads' = [threads EXCEPT ![idx].pc = "check"]
            /\ idx' = idx + 1
            /\ UNCHANGED drv
       ELSE /\ drv' = "error"
            /\ UNCHANGED << threads, idx >>
    /\ UNCHANGED << ConfigVars, alive_ret, sigints, api_calls, stop_calls,
                    stopped_upto, join_called, inserted, WorkerVars >>

\* stop_threads: thread.stop() on every thread of the list.
stop_threads ==
    /\ drv = "stop_threads"
    /\ IF idx > Len(threads)
       THEN /\ drv' = Ret("any_threads_alive")
            /\ idx' = 1
            /\ stop_calls' = stop_calls + 1
            /\ stopped_upto' = Len(threads)
            /\ UNCHANGED threads
       ELSE /\ threads' = [threads EXCEPT ![idx] = stop(threads[idx])]
            /\ idx' = idx + 1
            /\ UNCHANGED << drv, stop_calls, stopped_upto >>
    /\ UNCHANGED << ConfigVars, alive_ret, sigints, api_calls,
                    join_called, inserted, WorkerVars >>

\* any_threads_alive: True at the first thread found alive, False after the list.
any_threads_alive ==
    /\ drv = "any_threads_alive"
    /\ IF idx > Len(threads)
       THEN /\ alive_ret' = "false"
            /\ drv' = Ret("join_threads")
            /\ idx' = 1
       ELSE IF is_alive(threads[idx])
       THEN /\ alive_ret' = "true"
            /\ drv' = Ret("sleep")
            /\ idx' = 1
       ELSE /\ idx' = idx + 1
            /\ UNCHANGED << drv, alive_ret >>
    /\ join_called' = (join_called \/ drv' = "join_threads")
    /\ UNCHANGED << ConfigVars, sigints, api_calls, stop_calls, stopped_upto,
                    inserted, threads, WorkerVars >>

\* join_threads: thread.join() on every thread of the list; join() blocks until
\* the thread has ended and raises RuntimeError on a thread never started.
join_threads ==
    /\ drv = "join_threads"
    /\ IF idx > Len(threads)
       THEN /\ drv' = Ret("exit")
            /\ idx' = 1
       ELSE IF threads[idx].pc = "new"
       THEN /\ drv' = "error"
            /\ UNCHANGED idx
       ELSE /\ Terminated(threads[idx])
            /\ idx' = idx + 1
            /\ UNCHANGED drv
    /\ UNCHANGED << ConfigVars, alive_ret, sigints, api_calls, stop_calls,
                    stopped_upto, join_called, inserted, threads, WorkerVars >>

\* ------------------------------------------------------------------ main()
\* main(): work_queue = queue.Queue(); one put() per item.
main_populate ==
    /\ drv = "populate"
    /\ \E n \in 0..MaxItems :
         /\ work_queue' = [i \in 1..n |-> i]
         /\ inserted' = n
    /\ drv' = "start_threads"
    /\ UNCHANGED << ConfigVars, removed, threads, idx, alive_ret, sigints,
                    api_calls, stop_calls, stopped_upto, join_called, attempts, finished,
                    raisedOn, emptySeen, stopSeen, login_data, sent >>

\* main(): time.sleep(0.1) returns and the loop tests any_threads_alive() again.
main_sleep ==
    /\ drv = "sleep"
    /\ drv' = "any_threads_alive"
    /\ idx' = 1
    /\ UNCHANGED << ConfigVars, alive_ret, sigints, api_calls, stop_calls,
                    stopped_upto, join_called, inserted, threads, WorkerVars >>

\* A KeyboardInterrupt reaches the main thread. Only time.sleep is inside the
\* try: there the handler calls stop_threads; anywhere else it leaves main().
main_interrupt ==
    /\ caller = "main"
    /\ drv \notin {"exit", "aborted"}
    /\ sigints < MaxInterrupts
    /\ sigints' = sigints + 1
    /\ IF drv = "sleep"
       THEN drv' = "stop_threads" /\ idx' = 1
       ELSE drv' = "aborted" /\ UNCHANGED idx
    /\ UNCHANGED << ConfigVars, alive_ret, api_calls, stop_calls,
                    stopped_upto, join_called, inserted, threads, WorkerVars >>

\* ------------------------------------------------------------------ client
\* A caller of the pool invokes one of its four methods.
client_call ==
    /\ drv = "client"
    /\ api_calls < MaxCalls
    /\ api_calls' = api_calls + 1
    /\ \E m \in {"start_threads", "stop_threads", "any_threads_alive", "join_threads"} :
         drv' = m
    /\ idx' = 1
    /\ join_called' = (join_called \/ drv' = "join_threads")
    /\ UNCHANGED << ConfigVars, alive_ret, sigints, stop_calls,
                    stopped_upto, inserted, threads, WorkerVars >>

\* ------------------------------------------------------------ specifications
\* No reconciliation is under way.
ReconcileIdle ==
    /\ ekind = "policy"
    /\ input_list = << >>
    /\ current_list = << >>
    /\ server = << >>
    /\ to_update = << >>
    /\ to_create = << >>
    /\ rstage = "idle"
    /\ rpos = 0
    /\ round = 0
    /\ requests = << >>

\* The pool after ThreadWrapper.__init__ and before start_threads.
InitPool ==
    /\ number_threads \in 1..MaxThreads
    /\ removed = 0
    /\ threads = << >>
    /\ idx = 1
    /\ alive_ret = "none"
    /\ sigints = 0
    /\ api_calls = 0
    /\ stop_calls = 0
    /\ stopped_upto = 0
    /\ join_called = FALSE
    /\ attempts = [i \in 1..MaxItems |-> 0]
    /\ sent = [i \in 1..MaxItems |-> << >>]
    /\ finished = {}
    /\ raisedOn = {}
    /\ emptySeen = {}
    /\ stopSeen = {}

\* The local-to-federated script is not run.
FederateIdle ==
    /\ repos = [LOCAL |-> << >>, VIRTUAL |-> << >>, FEDERATED |-> << >>]
    /\ all_repos = repos
    /\ local_repos = << >>
    /\ fstage = "idle"
    /\ fpos = 0
    /\ runs = 0
    /\ fcalls = << >>

\* The build-cleanup driver's queueing is not modelled in this run.
CleanupIdle ==
    /\ builds_to_delete_list = << >>
    /\ builds_to_delete = << >>
    /\ cqueue = << >>
    /\ handed = << >>
    /\ crashed = 0
    /\ cstage = "idle"

\* The file generator's main() has not begun to poll.
GeneratorIdle == tmp_post_count = 0

\* main() of create-curation-policies is not run as a whole.
CurationIdle ==
    /\ input_data = [conditions |-> << >>, policies |-> << >>]
    /\ other_entities = << >>

\* Neither gen_numbers nor a RandomDataGenerator nor the conversion is under way.
LastScriptsIdle == runner = << >> /\ reader = << >> /\ conversion = << >>

MoreScriptsIdle == GeneratorIdle /\ CurationIdle /\ LastScriptsIdle

ScriptsIdle == FederateIdle /\ CleanupIdle /\ MoreScriptsIdle

InitCommon == ReconcileIdle /\ ScriptsIdle /\ InitPool

\* The pool specifications run ArtifactDeleter on the records of
\* get_artifact_list, without --dry-run.
PoolContext ==
    /\ kind = "ArtifactDeleter"
    /\ item_is_record = TRUE
    /\ login_data = Context(kind, FALSE)

\* main() after argument parsing: the wrapper's size is known, nothing queued yet.
Init ==
    /\ InitCommon
    /\ PoolContext
    /\ caller = "main"
    /\ drv = "populate"
    /\ work_queue = << >>
    /\ inserted = 0

\* A populated queue and a constructed ThreadWrapper in the hands of a client.
InitClient ==
    /\ InitCommon
    /\ PoolContext
    /\ caller = "client"
    /\ drv = "client"
    /\ \E n \in 0..MaxItems :
         /\ work_queue = [i \in 1..n |-> i]
         /\ inserted = n

PoolStep ==
    \/ start_threads_append
    \/ start_threads_start
    \/ stop_threads
    \/ any_threads_alive
    \/ join_threads

Next ==
    \/ main_populate
    \/ main_sleep
    \/ main_interrupt
    \/ start_threads_append
    \/ start_threads_start
    \/ stop_threads
    \/ any_threads_alive
    \/ join_threads
    \/ \E w \in Workers : run_check(w)
    \/ \E w \in Workers : run_get(w)
    \/ \E w \in Workers : run_action(w)

NextClient ==
    \/ client_call
    \/ start_threads_append
    \/ start_threads_start
    \/ stop_threads
    \/ any_threads_alive
    \/ join_threads
    \/ \E w \in Workers : run_check(w)
    \/ \E w \in Workers : run_get(w)
    \/ \E w \in Workers : run_action(w)

\* main() of each script, any worker class, with or without --dry-run, and no
\* interrupt. The build clean-up queues the keys of builds_to_delete (`for item in
\* builds_to_delete`), the other scripts queue records.
InitAdapter ==
    /\ InitCommon
    /\ kind \in Kinds
    /\ item_is_record = (kind # "BuildDeleter")
    /\ \E dry \in BOOLEAN : login_data = Context(kind, dry)
    /\ caller = "main"
    /\ drv = "populate"
    /\ work_queue = << >>
    /\ inserted = 0

NextAdapter ==
    \/ main_populate
    \/ main_sleep
    \/ start_threads_append
    \/ start_threads_start
    \/ any_threads_alive
    \/ join_threads
    \/ \E w \in Workers : run_check(w)
    \/ \E w \in Workers : run_get(w)
    \/ \E w \in Workers : run_action(w)

Spec == Init /\ [][Next]_vars

SpecAdapter == InitAdapter /\ [][NextAdapter]_vars

SpecClient == InitClient /\ [][NextClient]_vars

\* The interpreter schedules every runnable thread again and again: each worker
\* takes its next step, and so does the driver (an interrupt need not come).
FairSpec ==
    /\ Spec
    /\ \A w \in 1..MaxThreads : WF_vars(run(w))
    /\ WF_vars(main_populate \/ main_sleep \/ PoolStep)

\* ------------------------------------------------------------------ claims
Items == 1..inserted

\* main() returned from join_threads and stop_threads was never called.
JoinedWithoutStop == caller = "main" /\ drv = "exit" /\ stop_calls = 0 /\ sigints = 0

\* C1: once join_threads has returned without a stop request, the action has been
\* invoked exactly once on each of the N queued items.
C1_ExactlyOnceAfterJoin ==
    JoinedWithoutStop => \A i \in Items : attempts[i] = 1

\* C2: no item is being processed by two workers at once, and the number of items
\* removed from the queue never exceeds the number inserted.
C2_NoSharedItem ==
    /\ \A v, w \in Workers :
         (v # w /\ threads[v].pc = "action" /\ threads[w].pc = "action")
            => threads[v].held # threads[w].held
    /\ removed <= inserted

C2_Witness ==
    \E v, w \in Workers :
        /\ v # w
        /\ threads[v].pc = "action"
        /\ threads[w].pc = "action"
        /\ removed = inserted

\* C3: a worker whose action raised is not terminated by it: it goes on to its
\* next dequeue attempt.
C3_FailureCaughtAtWorker ==
    \A w \in Workers : threads[w].held \in raisedOn => threads[w].pc # "crashed"

\* C4: whatever items the action throws on, after join_threads all N items have
\* been attempted exactly once and no worker ended with an unhandled exception.
C4_AllAttemptedDespiteThrows ==
    JoinedWithoutStop =>
        /\ \A i \in Items : attempts[i] = 1
        /\ \A w \in Workers : threads[w].pc # "crashed"

\* Workers that ended normally on an empty queue without ever invoking the action.
IdleExits ==
    { w \in Workers : /\ threads[w].pc = "ended"
                      /\ threads[w].calls = 0
                      /\ threads[w].shutdown
                      /\ w \in emptySeen }

PoolRanToEnd ==
    /\ sigints = 0
    /\ Len(threads) = number_threads
    /\ AllTerminated

\* C5: with more workers than items (also with no item at all) every started
\* worker terminates, and at least P - N of them leave on an empty queue, stopped,
\* without invoking the action and without an exception.
C5_SurplusWorkersExit ==
    /\ []((PoolRanToEnd /\ number_threads > inserted)
            => Cardinality(IdleExits) >= number_threads - inserted)
    /\ <>[](\A w \in Workers : threads[w].pc # "new" => Terminated(threads[w]))

C5_Witness ==
    /\ PoolRanToEnd
    /\ inserted >= 1
    /\ number_threads > inserted
    /\ IdleExits # {}
    /\ drv = "exit"

\* The step is one of the driver thread.
DriverStep == << drv, idx >>' # << drv, idx >>

\* C6: under a stop request an item already dequeued still gets its action, and a
\* worker that reads the stop flag at its loop test ends without dequeuing: the
\* queue keeps its items.
C6_StopIsCooperative ==
    [][\A w \in Workers :
          /\ (threads[w].shutdown /\ threads[w].pc = "action" /\ threads'[w] # threads[w])
                => attempts'[threads[w].held] = attempts[threads[w].held] + 1
          /\ (threads[w].shutdown /\ threads[w].pc = "check" /\ threads'[w] # threads[w]
                /\ ~DriverStep)
                => /\ threads'[w].pc = "ended"
                   /\ work_queue' = work_queue
                   /\ removed' = removed]_vars

C6_Witness ==
    \E w \in stopSeen :
        /\ threads[w].calls >= 1
        /\ Len(work_queue) >= 1
        /\ AllTerminated
        /\ raisedOn = {}

\* C7: on every path main() that started workers calls join_threads before it
\* exits, and exits only after every worker has terminated.
C7_JoinBeforeExit ==
    (drv \in {"exit", "aborted"} /\ \E w \in Workers : threads[w].pc # "new")
        => (join_called /\ AllTerminated)

\* C8: any_threads_alive returns False only when every worker has observed an empty
\* queue or a stop signal.
C8_AliveUntilObserved ==
    alive_ret = "false" => \A w \in Workers : w \in emptySeen \cup stopSeen

\* C9: once a stop_threads call has returned, a further call changes nothing in
\* the threads it went through and raises no error.
C9_StopIdempotent ==
    [][(drv = "stop_threads" /\ idx <= stopped_upto /\ DriverStep)
          => (threads' = threads /\ work_queue' = work_queue /\ drv' # "error")]_vars

C9_Witness ==
    /\ stop_calls >= 2
    /\ stopped_upto = number_threads
    /\ emptySeen # {}
    /\ stopSeen # {}

\* C10: once started the pool holds exactly number_threads workers, whatever is
\* called afterwards, a further start_threads included.
C10_PoolSizeFixed ==
    Len(threads) \in {0, number_threads}

\* ======================================================== create-curation-policies
\* Python dicts are functions from keys to values.
Has(d, k) == k \in DOMAIN d

Put(d, k, v) == [x \in DOMAIN d \cup {k} |-> IF x = k THEN v ELSE d[x]]

\* set(list)
Range(l) == {l[i] : i \in 1..Len(l)}

\* The progress of the comparison of one input entity with its single match:
\* the current entity (changed in place), the `update` flag, and whether a
\* KeyError left the function.
Comparing(c) == [cur |-> c, update |-> FALSE, raised |-> FALSE]

KeyError(st) == [st EXCEPT !.raised = TRUE]

Overwrite(st, f, v) == [st EXCEPT !.cur = Put(st.cur, f, v), !.update = TRUE]

scalar_field_always(f, inp, st) ==
    IF st.raised THEN st
    ELSE IF ~Has(inp, f) \/ ~Has(st.cur, f) THEN KeyError(st)
    ELSE Overwrite(st, f, inp[f])

\* if input[f] != current[f]: current[f] = input[f]; update = True
scalar_field(f, inp, st) ==
    IF st.raised THEN st
    ELSE IF ~Has(inp, f) \/ ~Has(st.cur, f) THEN KeyError(st)
    ELSE IF inp[f] # st.cur[f] THEN Overwrite(st, f, inp[f])
    ELSE st

\* if f in input and f not in current: current[f] = input[src]; update = True
absent_field(f, src, inp, st) ==
    IF st.raised THEN st
    ELSE IF Has(inp, f) /\ ~Has(st.cur, f)
    THEN IF Has(inp, src) THEN Overwrite(st, f, inp[src]) ELSE KeyError(st)
    ELSE st

set_field_ordered(f, inp, st) ==
    IF st.raised THEN st
    ELSE IF Has(inp, f) /\ Has(st.cur, f) /\ inp[f] # st.cur[f]
    THEN Overwrite(st, f, inp[f])
    ELSE st

\* if f in input and f in current and set(input[f]) != set(current[f]):
\*     current[f] = input[f]; update = True
set_field(f, inp, st) ==
    IF st.raised THEN st
    ELSE IF Has(inp, f) /\ Has(st.cur, f) /\ Range(inp[f]) # Range(st.cur[f])
    THEN Overwrite(st, f, inp[f])
    ELSE st

\* The two statements of an optional list-of-strings field.
optional_set_field(f, inp, st) == set_field(f, inp, absent_field(f, f, inp, st))

\* Lines 244-249: the first statement copies input["repo_exclude"].
repo_include_field(inp, st) ==
    set_field("repo_include", inp, absent_field("repo_include", "repo_exclude", inp, st))

\* Lines 280-286: the waiver counts as changed when every field differs.
waiver_changed(a, b) ==
    /\ a.pkg_type # b.pkg_type
    /\ a.pkg_name # b.pkg_name
    /\ a.all_versions # b.all_versions
    /\ Range(a.pkg_versions) # Range(b.pkg_versions)
    /\ a.justification # b.justification
    /\ a.created_by # b.created_by
    /\ a.created_at # b.created_at

\* Lines 304-307: the same for a label waiver.
label_waiver_changed(a, b) ==
    /\ a.label # b.label
    /\ a.justification # b.justification
    /\ a.created_by # b.created_by
    /\ a.created_at # b.created_at

\* Line 121: a parameter is changed when its value differs.
param_changed(a, b) == a.value # b.value

sub_changed(f, a, b) ==
    CASE f = "waivers" -> waiver_changed(a, b)
      [] f = "label_waivers" -> label_waiver_changed(a, b)
      [] f = "param_values" -> param_changed(a, b)

\* The key that identifies the items of a nested list.
sub_id(f) == IF f = "param_values" THEN "param_id" ELSE "id"

\* [x for x in current[f] if x[key] == item[key]], as the positions in current[f].
sub_matches(l, key, v) == {i \in 1..Len(l) : l[i][key] = v}

RECURSIVE sub_loop_merging(_, _, _, _)
sub_loop_merging(f, inp, st, k) ==
    IF st.raised \/ k > Len(inp[f]) THEN st
    ELSE IF ~Has(st.cur, f) THEN KeyError(st)
    ELSE LET m == sub_matches(st.cur[f], sub_id(f), inp[f][k][sub_id(f)]) IN
         IF Cardinality(m) = 1 /\ sub_changed(f, inp[f][k], st.cur[f][CHOOSE i \in m : TRUE])
         THEN Overwrite(st, f, inp[f])
         ELSE sub_loop_merging(f, inp, st, k + 1)

\* for item in input[f]: the k-th and later iterations. More than one match, no
\* match or a changed item: current[f] = input[f]; update = True; break.
RECURSIVE sub_loop(_, _, _, _)
sub_loop(f, inp, st, k) ==
    IF st.raised \/ k > Len(inp[f]) THEN st
    ELSE IF ~Has(st.cur, f) THEN KeyError(st)
    ELSE LET item == inp[f][k]
             key == sub_id(f)
             cl == st.cur[f]
         IN IF cl # << >> /\ (~Has(item, key) \/ \E i \in 1..Len(cl) : ~Has(cl[i], key))
            THEN KeyError(st)
            ELSE LET m == IF cl = << >> THEN {} ELSE sub_matches(cl, key, item[key]) IN
                 IF Cardinality(m) # 1 THEN Overwrite(st, f, inp[f])
                 ELSE IF sub_changed(f, item, cl[CHOOSE i \in m : TRUE])
                 THEN Overwrite(st, f, inp[f])
                 ELSE sub_loop(f, inp, st, k + 1)

\* if f in input: for item in input[f]: ...
optional_sub_field(f, inp, st) ==
    IF st.raised \/ ~Has(inp, f) THEN st ELSE sub_loop(f, inp, st, 1)

\* for input_param in input_condition["param_values"]: ...
required_sub_field(f, inp, st) ==
    IF st.raised THEN st
    ELSE IF ~Has(inp, f) THEN KeyError(st)
    ELSE sub_loop(f, inp, st, 1)

\* compare_conditions, lines 100-124: one input condition against its match.
compare_condition(inp, c) ==
    required_sub_field("param_values", inp,
        scalar_field("condition_template_id", inp, Comparing(c)))

\* compare_policies, lines 222-332: one input policy against its match.
compare_policy(inp, c) ==
    LET s1 == scalar_field("enabled", inp, Comparing(c))
        s2 == scalar_field("scope", inp, s1)
        s3 == optional_set_field("repo_exclude", inp, s2)
        s4 == repo_include_field(inp, s3)
        s5 == optional_set_field("pkg_types_include", inp, s4)
        s6 == scalar_field("policy_action", inp, s5)
        s7 == scalar_field("condition_id", inp, s6)
        s8 == optional_sub_field("waivers", inp, s7)
        s9 == optional_sub_field("label_waivers", inp, s8)
        s10 == optional_set_field("notify_emails", inp, s9)
        s11 == scalar_field("waiver_request_config", inp, s10)
    IN optional_set_field("decision_owners", inp, s11)

compare_entity(ek, inp, c) ==
    IF ek = "condition" THEN compare_condition(inp, c) ELSE compare_policy(inp, c)

\* [x for x in current_list if x["name"] == input["name"]], as positions.
matching(cl, inp) == {i \in 1..Len(cl) : cl[i]["name"] = inp["name"]}

on_new_dropped(st, inp) == st

\* No match: create.append(input).
on_new(st, inp) == [st EXCEPT !.create = Append(@, inp)]

on_ambiguous_first(st, ek, inp, m) ==
    LET i == CHOOSE j \in m : \A l \in m : j <= l
        r == compare_entity(ek, inp, st.current[i])
    IN [st EXCEPT !.current[i] = r.cur, !.raised = r.raised,
                  !.update = IF r.update /\ ~r.raised THEN Append(@, i) ELSE @]

\* More than one match: logging.error, nothing else.
on_ambiguous(st, ek, inp, m) == st

on_single_also_created(st, ek, inp, m) ==
    LET i == CHOOSE j \in m : TRUE
        r == compare_entity(ek, inp, st.current[i])
    IN [st EXCEPT !.current[i] = r.cur, !.raised = r.raised,
                  !.update = IF r.update /\ ~r.raised THEN Append(@, i) ELSE @,
                  !.create = IF r.update /\ ~r.raised THEN Append(@, inp) ELSE @]

\* One match: the comparison changes the current entity in place;
\* if update == True: update.append(current).
on_single(st, ek, inp, m) ==
    LET i == CHOOSE j \in m : TRUE
        r == compare_entity(ek, inp, st.current[i])
    IN [st EXCEPT !.current[i] = r.cur, !.raised = r.raised,
                  !.update = IF r.update /\ ~r.raised THEN Append(@, i) ELSE @]

\* for input in input_list: the k-th and later iterations. The update list holds
\* references to entities of current_list: positions here.
RECURSIVE compare_from(_, _, _, _)
compare_from(ek, il, st, k) ==
    IF st.raised \/ k > Len(il) THEN st
    ELSE LET m == matching(st.current, il[k])
             nxt == IF Cardinality(m) > 1 THEN on_ambiguous(st, ek, il[k], m)
                    ELSE IF Cardinality(m) = 0 THEN on_new(st, il[k])
                    ELSE on_single(st, ek, il[k], m)
         IN compare_from(ek, il, nxt, k + 1)

\* compare_conditions / compare_policies: the lists returned (none when a
\* KeyError left the function) and current_list as the call leaves it.
compare(ek, il, cl) ==
    LET st == compare_from(ek, il,
                  [current |-> cl, update |-> << >>, create |-> << >>, raised |-> FALSE], 1)
    IN [current |-> st.current,
        raised |-> st.raised,
        update |-> [j \in 1..Len(st.update) |-> st.current[st.update[j]]],
        create |-> st.create]

\* The server's side of update_condition / update_policy: PUT .../{id} replaces
\* the stored entity that has this id.
put_entity(sv, e) == [i \in 1..Len(sv) |-> IF sv[i]["id"] = e["id"] THEN e ELSE sv[i]]

MaxOf(S) == IF S = {} THEN 0 ELSE CHOOSE x \in S : \A y \in S : y <= x

\* The server's side of create_condition / create_policy: POST stores the entity
\* under a new id.
post_entity(sv, e) ==
    Append(sv, Put(e, "id", MaxOf({sv[i]["id"] : i \in 1..Len(sv)}) + 1))

\* ------------------------------------------------------------- entities
Waiver(id, type, pkg, all, versions, why, by, at) ==
    [id |-> id, pkg_type |-> type, pkg_name |-> pkg, all_versions |-> all,
     pkg_versions |-> versions, justification |-> why, created_by |-> by,
     created_at |-> at]

WaiverX == Waiver(1, "npm", "x", FALSE, << "1.0" >>, "ok", "ann", "mon")
WaiverY == Waiver(1, "npm", "y", FALSE, << "1.0" >>, "ok", "ann", "mon")
WaiverZ == Waiver(1, "pypi", "z", TRUE, << "2.0" >>, "no", "bob", "tue")

LabelWaiver(id) ==
    [id |-> id, label |-> "l", justification |-> "ok", created_by |-> "ann",
     created_at |-> "mon"]

\* A policy with every field compare_policies reads unconditionally.
Policy(name, enabled) ==
    [name |-> name, enabled |-> enabled, scope |-> "all_repos", policy_action |-> "block",
     condition_id |-> "1", waiver_request_config |-> "forbidden"]

With(d, id) == Put(d, "id", id)

\* A policy with the list l in each of its optional list-of-strings fields.
AllSets(d, l) ==
    [f \in DOMAIN d \cup {"repo_exclude", "repo_include", "pkg_types_include",
                          "notify_emails", "decision_owners"} |->
        IF f \in DOMAIN d THEN d[f] ELSE l]

\* The policies of the input file.
DesiredPolicies ==
    << Policy("p1", TRUE),
       Policy("p1", FALSE),
       Put(Put(Policy("p1", TRUE), "repo_exclude", << "a", "b" >>),
           "repo_include", << "b", "a" >>),
       Put(Policy("p1", TRUE), "repo_include", << "b" >>),
       Put(Policy("p1", TRUE), "waivers", << WaiverX >>),
       [name |-> "p1", enabled |-> TRUE],
       [name |-> "p1", enabled |-> FALSE],
       Policy("p2", TRUE),
       AllSets(Policy("p1", TRUE), << "a", "b" >>),
       Put(Put(Policy("p1", TRUE), "waivers", << WaiverX >>),
           "label_waivers", << LabelWaiver(1) >>) >>

\* The policies list_policies can return: each with its server-assigned id.
CurrentPolicies ==
    << With(Policy("p1", TRUE), 7),
       With(Put(Put(Policy("p1", TRUE), "repo_exclude", << "b", "a" >>),
                "repo_include", << "a", "b" >>), 7),
       With(Put(Policy("p1", TRUE), "waivers", << WaiverX >>), 7),
       With(Put(Policy("p1", TRUE), "waivers", << WaiverY >>), 7),
       With(Put(Policy("p1", TRUE), "waivers", << WaiverZ >>), 7),
       With(Put(Policy("p1", TRUE), "waivers", << WaiverX, WaiverY >>), 7),
       [id |-> 7, name |-> "p1", enabled |-> TRUE],
       With(Policy("p2", TRUE), 8),
       With(Policy("p1", FALSE), 9),
       With(AllSets(Policy("p1", TRUE), << "b", "a" >>), 7),
       With(Put(Put(Policy("p1", TRUE), "waivers", << >>),
                "label_waivers", << LabelWaiver(2), LabelWaiver(2) >>), 7) >>

\* A condition with every field compare_conditions reads.
Condition(name, template, params) ==
    [name |-> name, condition_template_id |-> template, param_values |-> params]

Param(id, v) == [param_id |-> id, value |-> v]

\* The conditions of the input file.
DesiredConditions ==
    << Condition("c1", "t1", << Param("days", 7) >>),
       Condition("c1", "t2", << Param("days", 7) >>),
       Condition("c1", "t1", << Param("days", 14) >>),
       Condition("c1", "t1", << Param("days", 7), Param("level", 2) >>),
       [name |-> "c1", enabled |-> TRUE],
       Condition("c2", "t1", << Param("days", 7) >>) >>

\* The conditions list_conditions can return.
CurrentConditions ==
    << With(Condition("c1", "t1", << Param("days", 7) >>), 1),
       With(Condition("c1", "t1", << Param("days", 30) >>), 1),
       With(Condition("c1", "t1", << Param("days", 7), Param("days", 7) >>), 1),
       [id |-> 1, name |-> "c1", enabled |-> TRUE],
       With(Condition("c2", "t1", << Param("days", 7) >>), 2),
       With(Condition("c1", "t2", << Param("days", 7) >>), 3) >>

DesiredPool(ek) == IF ek = "condition" THEN DesiredConditions ELSE DesiredPolicies

CurrentPool(ek) == IF ek = "condition" THEN CurrentConditions ELSE CurrentPolicies

\* The lists of at most n entities of a pool, in any order, with repetitions.
ListsOf(pool, n) ==
    UNION {{[k \in 1..m |-> pool[ix[k]]] : ix \in [1..m -> 1..Len(pool)]} : m \in 0..n}

RECURSIVE Pick(_, _)
Pick(pool, S) ==
    IF S = {} THEN << >>
    ELSE LET i == CHOOSE j \in S : \A l \in S : j <= l
         IN << pool[i] >> \o Pick(pool, S \ {i})

\* What the server can hold: at most n entities of a pool, no id twice.
StoresOf(pool, n) ==
    {Pick(pool, S) : S \in {T \in SUBSET (1..Len(pool)) :
                               /\ Cardinality(T) <= n
                               /\ \A i, j \in T : pool[i]["id"] = pool[j]["id"] => i = j}}

\* -------------------------------------------------------------- the driver
\* main(): compare_conditions(input_data["conditions"], current_conditions), or
\* compare_policies(updated_input_policies, current_policies).
compare_lists ==
    /\ rstage = "listed"
    /\ LET r == compare(ekind, input_list, current_list) IN
       /\ current_list' = r.current
       /\ IF r.raised
          THEN /\ rstage' = "raised"
               /\ UNCHANGED << to_update, to_create >>
          ELSE /\ rstage' = "compared"
               /\ to_update' = r.update
               /\ to_create' = r.create
    /\ UNCHANGED << ekind, input_list, server, rpos, round, requests, PoolVars,
                    ScriptVars >>

\* update_condition / update_policy, create_condition / create_policy: the one
\* make_api_request each of them makes.
Request(method, entity) == [method |-> method, body |-> entity]

\* main(): for up in to_update: update_condition / update_policy (login, up).
send_update ==
    /\ rstage = "compared"
    /\ rpos < Len(to_update)
    /\ server' = put_entity(server, to_update[rpos + 1])
    /\ requests' = Append(requests, Request("PUT", to_update[rpos + 1]))
    /\ rpos' = rpos + 1
    /\ UNCHANGED << ekind, input_list, current_list, to_update, to_create, rstage, round,
                    PoolVars, ScriptVars >>

send_create_unordered ==
    /\ rstage = "compared"
    /\ rpos < Len(to_update) + Len(to_create)
    /\ \E k \in 1..Len(to_create) :
          /\ server' = post_entity(server, to_create[k])
          /\ requests' = Append(requests, Request("POST", to_create[k]))
    /\ rpos' = rpos + 1
    /\ UNCHANGED << ekind, input_list, current_list, to_update, to_create, rstage, round,
                    PoolVars, ScriptVars >>

\* main(): then, for cr in to_create: create_condition / create_policy (login, cr).
send_create ==
    /\ rstage = "compared"
    /\ rpos >= Len(to_update)
    /\ rpos < Len(to_update) + Len(to_create)
    /\ server' = post_entity(server, to_create[rpos - Len(to_update) + 1])
    /\ requests' = Append(requests, Request("POST", to_create[rpos - Len(to_update) + 1]))
    /\ rpos' = rpos + 1
    /\ UNCHANGED << ekind, input_list, current_list, to_update, to_create, rstage, round,
                    PoolVars, ScriptVars >>

\* list_conditions / list_policies after the requests, for the next comparison.
list_entities ==
    /\ rstage = "compared"
    /\ rpos = Len(to_update) + Len(to_create)
    /\ round < MaxRounds
    /\ current_list' = server
    /\ rstage' = "listed"
    /\ round' = round + 1
    /\ rpos' = 0
    /\ to_update' = << >>
    /\ to_create' = << >>
    /\ requests' = << >>
    /\ UNCHANGED << ekind, input_list, server, PoolVars, ScriptVars >>

\* main() after json.load and the first list_conditions / list_policies.
InitReconcile ==
    /\ InitPool
    /\ ScriptsIdle
    /\ PoolContext
    /\ number_threads = 1
    /\ caller = "curation"
    /\ drv = "curation"
    /\ work_queue = << >>
    /\ inserted = 0
    /\ ekind \in {"condition", "policy"}
    /\ input_list \in ListsOf(DesiredPool(ekind), MaxDesired)
    /\ server \in StoresOf(CurrentPool(ekind), MaxCurrent)
    /\ current_list = server
    /\ to_update = << >>
    /\ to_create = << >>
    /\ rstage = "listed"
    /\ rpos = 0
    /\ round = 1
    /\ requests = << >>

NextReconcile == compare_lists \/ send_update \/ send_create \/ list_entities

SpecReconcile == InitReconcile /\ [][NextReconcile]_vars

\* =============================================== local-to-federated-add-to-virtual
\* A repository key is the sequence of its parts: "a-local" is << "a", "-local" >>.
\* str.removesuffix
removesuffix(key, suffix) ==
    IF key # << >> /\ key[Len(key)] = suffix THEN SubSeq(key, 1, Len(key) - 1) ELSE key

\* main(): federated_key = key.removesuffix("-local").__add__("-fed")
federated_key(key) == Append(removesuffix(key, "-local"), "-fed")

FED_REPO_KEYS ==
    {"key", "projectKey", "environments", "rclass", "packageType", "members",
     "description", "proxy", "disableProxy", "notes", "includePattern", "excludePattern",
     "repoLayoutRef", "debianTrivialLayout", "checksumPolicyType", "handleReleases",
     "handleSnapshots", "maxUniqueSnapshots", "maxUniqueTags", "snapshotVersionBehavior",
     "suppressPomConsistencyChecks", "blackedOut", "xrayIndex", "propertySets",
     "archiveBrowsingEnabled", "calculateYumMetadata", "yumRootDepth", "dockerApiVersion",
     "enableFileListsIndexing", "optionalIndexCompressionFormats", "downloadRedirect",
     "cdnRedirect", "blockPushingSchema1", "primaryKeyPairRef", "secondaryKeyPairRef",
     "priorityResolution"}

\* convert_local_repo_config_to_federated: the federated keys of the local
\* configuration, with rclass "federated".
convert_local_repo_config_to_federated(local_repo_config) ==
    Put([k \in FED_REPO_KEYS \cap DOMAIN local_repo_config |-> local_repo_config[k]],
        "rclass", "federated")

\* add_federated_repo_to_virtual_repo: a deep copy with the federated key inserted
\* at the head of "repositories" and made the default deployment repository.
add_federated_repo_to_virtual_repo(virtual_repo_config, federated_repo_key) ==
    Put(Put(virtual_repo_config, "repositories",
            << federated_repo_key >> \o virtual_repo_config["repositories"]),
        "defaultDeploymentRepo", federated_repo_key)

\* The number of times a key is listed in a virtual repository.
Occurrences(vrepo, key) ==
    Cardinality({p \in 1..Len(vrepo["repositories"]) : vrepo["repositories"][p] = key})

Repeat(x, n) == [i \in 1..n |-> x]

\* for vrepo in all_repos["VIRTUAL"]: for arepo in vrepo["repositories"]: what is
\* appended to local_repos[key]["virtuals"], each copy made from vrepo as listed.
RECURSIVE virtuals_of(_, _, _)
virtuals_of(vrepos, key, fkey) ==
    IF vrepos = << >> THEN << >>
    ELSE Repeat(add_federated_repo_to_virtual_repo(Head(vrepos), fkey),
                Occurrences(Head(vrepos), key))
             \o virtuals_of(Tail(vrepos), key, fkey)

\* main(): the dict local_repos after both preparation loops, in insertion order.
prepare_local_repos(all) ==
    [i \in 1..Len(all.LOCAL) |->
        LET repo == all.LOCAL[i]
            fkey == federated_key(repo["key"])
        IN [key |-> repo["key"],
            local_config |-> repo,
            virtuals |-> virtuals_of(all.VIRTUAL, repo["key"], fkey),
            federated_key |-> fkey,
            federated_config |->
                Put(convert_local_repo_config_to_federated(repo), "key", fkey)]]

\* main(): fed_repo_keys
fed_repo_keys(all) == {all.FEDERATED[i]["key"] : i \in 1..Len(all.FEDERATED)}

\* for lrepo_key in local_repos: for vrepo in local_repos[lrepo_key]["virtuals"]:
\* the virtual configurations in the order they are sent.
RECURSIVE updates_of(_)
updates_of(lr) == IF lr = << >> THEN << >> ELSE Head(lr).virtuals \o updates_of(Tail(lr))

\* create_federated_repository: one PUT, skipped under dry_run.
create_federated_repository(ld, federated_repo_config) ==
    IF ld.dry_run = FALSE THEN << Request("PUT", federated_repo_config) >> ELSE << >>

\* update_virtual_repository: one POST, skipped under dry_run.
update_virtual_repository(ld, virtual_repo_config) ==
    IF ld.dry_run = FALSE THEN << Request("POST", virtual_repo_config) >> ELSE << >>

KeysOf(l) == {l[i]["key"] : i \in 1..Len(l)}

\* The server's side of PUT /api/repositories/{key}: the repository is created
\* unless the key is taken (then HTTPError, which make_api_request catches).
put_repository(rp, cfg) ==
    IF cfg["key"] \in KeysOf(rp.LOCAL) \cup KeysOf(rp.VIRTUAL) \cup KeysOf(rp.FEDERATED)
    THEN rp
    ELSE [rp EXCEPT !.FEDERATED = Append(@, cfg)]

\* The server's side of POST /api/repositories/{key}: the configuration sent
\* replaces the one stored under that key.
post_repository(rp, cfg) ==
    [rp EXCEPT !.VIRTUAL =
        [i \in 1..Len(rp.VIRTUAL) |->
            IF rp.VIRTUAL[i]["key"] = cfg["key"] THEN cfg ELSE rp.VIRTUAL[i]]]

RECURSIVE apply_requests(_, _)
apply_requests(rp, reqs) ==
    IF reqs = << >> THEN rp
    ELSE apply_requests(IF Head(reqs).method = "PUT" THEN put_repository(rp, Head(reqs).body)
                        ELSE post_repository(rp, Head(reqs).body),
                        Tail(reqs))

\* main(): one iteration of `for repo_key in local_repos:` (243-249).
create_federated ==
    /\ fstage = "create"
    /\ fpos < Len(local_repos)
    /\ LET e == local_repos[fpos + 1]
           reqs == IF e.federated_key \notin fed_repo_keys(all_repos)
                   THEN create_federated_repository(login_data, e.federated_config)
                   ELSE << >>
       IN /\ fcalls' = fcalls \o reqs
          /\ repos' = apply_requests(repos, reqs)
    /\ fpos' = fpos + 1
    /\ UNCHANGED << all_repos, local_repos, fstage, runs, PoolVars, ReconcileVars,
                    CleanupVars, MoreScriptVars >>

\* main(): the creation loop has ended, the update loop begins (252).
begin_updates ==
    /\ fstage = "create"
    /\ fpos = Len(local_repos)
    /\ fstage' = "update"
    /\ fpos' = 0
    /\ UNCHANGED << repos, all_repos, local_repos, runs, fcalls, PoolVars, ReconcileVars,
                    CleanupVars, MoreScriptVars >>

\* main(): one iteration of the inner loop `for vrepo in ...["virtuals"]:` (253-255).
update_virtual ==
    /\ fstage = "update"
    /\ fpos < Len(updates_of(local_repos))
    /\ LET reqs == update_virtual_repository(login_data, updates_of(local_repos)[fpos + 1])
       IN /\ fcalls' = fcalls \o reqs
          /\ repos' = apply_requests(repos, reqs)
    /\ fpos' = fpos + 1
    /\ UNCHANGED << all_repos, local_repos, fstage, runs, PoolVars, ReconcileVars,
                    CleanupVars, MoreScriptVars >>

\* The script has ended and is run again: main() up to the preparation of
\* local_repos (209-236).
run_again ==
    /\ fstage = "update"
    /\ fpos = Len(updates_of(local_repos))
    /\ runs < MaxRuns
    /\ runs' = runs + 1
    /\ all_repos' = repos
    /\ local_repos' = prepare_local_repos(repos)
    /\ fstage' = "create"
    /\ fpos' = 0
    /\ fcalls' = << >>
    /\ UNCHANGED << repos, PoolVars, ReconcileVars, CleanupVars,
                    MoreScriptVars >>

\* main(): login_data (198-206)
FederateContext(dry) == [host |-> "host", token |-> "token", dry_run |-> dry]

LocalA == << "a", "-local" >>

LocalB == << "b", "-local" >>

LocalPlain == << "a" >>

Remote == << "r", "-remote" >>

LocalConfig(key) ==
    [key |-> key, rclass |-> "local", packageType |-> "npm", includesPattern |-> "**/*"]

VirtualConfig(key, members) ==
    [key |-> key, rclass |-> "virtual", packageType |-> "npm", repositories |-> members]

LocalPool == << LocalConfig(LocalA), LocalConfig(LocalB), LocalConfig(LocalPlain) >>

VirtualPool ==
    << VirtualConfig(<< "v1" >>, << LocalA >>),
       VirtualConfig(<< "v1" >>, << LocalA, LocalB >>),
       VirtualConfig(<< "v1" >>, << Remote, LocalB >>),
       VirtualConfig(<< "v2" >>, << LocalA >>),
       VirtualConfig(<< "v2" >>, << Remote >>),
       VirtualConfig(<< "v2" >>, << LocalPlain, LocalA, Remote >>) >>

FederatedPool ==
    << Put(convert_local_repo_config_to_federated(LocalConfig(LocalA)), "key",
           federated_key(LocalA)) >>

\* What the server can hold of a class: at most n repositories of a pool, no key
\* twice.
ReposOf(pool, n) ==
    {Pick(pool, S) : S \in {T \in SUBSET (1..Len(pool)) :
                               /\ Cardinality(T) <= n
                               /\ \A i, j \in T : pool[i]["key"] = pool[j]["key"] => i = j}}

\* main() of the first run after get_repository_configurations and the
\* preparation of local_repos (209-236). A virtual repository lists repositories
\* the server has.
InitFederate ==
    /\ InitPool
    /\ ReconcileIdle
    /\ CleanupIdle
    /\ MoreScriptsIdle
    /\ number_threads = 1
    /\ caller = "local-to-federated"
    /\ drv = "local-to-federated"
    /\ kind = "none"
    /\ item_is_record = TRUE
    /\ work_queue = << >>
    /\ inserted = 0
    /\ \E dry \in BOOLEAN : login_data = FederateContext(dry)
    /\ \E l \in ReposOf(LocalPool, MaxLocals), v \in ReposOf(VirtualPool, MaxVirtuals),
          f \in ReposOf(FederatedPool, MaxLocals) :
          /\ \A i \in 1..Len(v) : Range(v[i]["repositories"]) \subseteq KeysOf(l) \cup {Remote}
          /\ repos = [LOCAL |-> l, VIRTUAL |-> v, FEDERATED |-> f]
    /\ all_repos = repos
    /\ local_repos = prepare_local_repos(repos)
    /\ fstage = "create"
    /\ fpos = 0
    /\ runs = 1
    /\ fcalls = << >>

NextFederate == create_federated \/ begin_updates \/ update_virtual \/ run_again

SpecFederate == InitFederate /\ [][NextFederate]_vars

\* ========================================================= build-cleanup-old-aql
\* Python values of the kinds this script handles.
Str(s) == [type |-> "str", s |-> s]

Num(s) == [type |-> "int", s |-> s]

Dict(d) == [type |-> "dict", d |-> d]

\* str(x)
str(x) == Str(x.s)

\* get_old_builds: one entry of the list it returns.
Build(name, number) == [name |-> name, number |-> number]

\* reorganise_builds, one iteration: the dict (its values, in insertion order)
\* after `item` has been added.
add_build(btd, item) ==
    IF \E i \in 1..Len(btd) : btd[i].name = item.name
    THEN [i \in 1..Len(btd) |->
            IF btd[i].name = item.name
            THEN [btd[i] EXCEPT !.numbers = @ \cup {str(item.number)}]
            ELSE btd[i]]
    ELSE Append(btd, [name |-> item.name, numbers |-> {str(item.number)}])

RECURSIVE reorganise_from(_, _)
reorganise_from(btd, l) ==
    IF l = << >> THEN btd ELSE reorganise_from(add_build(btd, Head(l)), Tail(l))

\* reorganise_builds: the returned dict, as the sequence of its values.
reorganise_builds(builds_list) == reorganise_from(<< >>, builds_list)

\* `for item in builds_to_delete:` iterates over the dict: the i-th item is the
\* i-th key, a build name.
iter_dict(btd, i) == Str(btd[i].name)

\* BuildDeleter.run: del_empty_build(self.login_data, item). Subscripting a str
\* with "numbers" raises TypeError.
del_empty_build_item(ld, item) ==
    IF item.type = "dict" THEN del_empty_build(ld, FALSE) ELSE Effect(ld, << >>, TRUE)

\* main(): builds_to_delete = reorganise_builds(builds_to_delete_list)
main_reorganise ==
    /\ cstage = "listed"
    /\ builds_to_delete' = reorganise_builds(builds_to_delete_list)
    /\ cstage' = "queueing"
    /\ UNCHANGED << builds_to_delete_list, cqueue, handed, crashed, PoolVars, ReconcileVars,
                    FederateVars,
                    MoreScriptVars >>

\* main(): one iteration of `for item in builds_to_delete: work_queue.put(item)`.
main_put ==
    /\ cstage = "queueing"
    /\ Len(cqueue) < Len(builds_to_delete)
    /\ cqueue' = Append(cqueue, iter_dict(builds_to_delete, Len(cqueue) + 1))
    /\ UNCHANGED << builds_to_delete_list, builds_to_delete, cstage, handed, crashed,
                    PoolVars, ReconcileVars, FederateVars,
                    MoreScriptVars >>

\* main(): the loop has ended; wrapper.start_threads()
main_start ==
    /\ cstage = "queueing"
    /\ Len(cqueue) = Len(builds_to_delete)
    /\ cstage' = "running"
    /\ UNCHANGED << builds_to_delete_list, builds_to_delete, cqueue, handed, crashed,
                    PoolVars, ReconcileVars, FederateVars,
                    MoreScriptVars >>

\* A worker that is alive takes the head of the queue and hands it to
\* del_empty_build; an exception ends that worker.
worker_item ==
    /\ cstage = "running"
    /\ crashed < number_threads
    /\ cqueue # << >>
    /\ cqueue' = Tail(cqueue)
    /\ handed' = Append(handed, Head(cqueue))
    /\ crashed' = IF del_empty_build_item(login_data, Head(cqueue)).raised
                  THEN crashed + 1 ELSE crashed
    /\ UNCHANGED << builds_to_delete_list, builds_to_delete, cstage, PoolVars,
                    ReconcileVars, FederateVars,
                    MoreScriptVars >>

BuildNames == {"n1", "n2"}

BuildNumbers == {Str("1"), Str("2"), Num("1")}

BuildPool == {Build(n, k) : n \in BuildNames, k \in BuildNumbers}

\* What get_old_builds can return: at most n builds.
BuildListsOf(n) == UNION {[1..m -> BuildPool] : m \in 0..n}

\* main() after get_old_builds (221).
InitCleanup ==
    /\ InitPool
    /\ ReconcileIdle
    /\ FederateIdle
    /\ MoreScriptsIdle
    /\ caller = "main"
    /\ drv = "populate"
    /\ kind = "BuildDeleter"
    /\ item_is_record = FALSE
    /\ \E dry \in BOOLEAN : login_data = Context(kind, dry)
    /\ work_queue = << >>
    /\ inserted = 0
    /\ builds_to_delete_list \in BuildListsOf(MaxBuilds)
    /\ builds_to_delete = << >>
    /\ cqueue = << >>
    /\ handed = << >>
    /\ crashed = 0
    /\ cstage = "listed"

NextCleanup == main_reorganise \/ main_put \/ main_start \/ worker_item

SpecCleanup == InitCleanup /\ [][NextCleanup]_vars

\* ========================================================= random-file-generator
\* FilePoster.post_count: the action calls of the worker that have returned.
post_count(t) == IF t.pc = "crashed" THEN t.calls - 1 ELSE t.calls

\* main(): for i in tmp_threads: tmp_post_count = tmp_post_count + i.post_count
RECURSIVE sum_post_count(_)
sum_post_count(ts) ==
    IF ts = << >> THEN 0 ELSE post_count(Head(ts)) + sum_post_count(Tail(ts))

\* main(): for i in range(NUM_THREADS): tmp_threads.append(FilePoster(tmp_queue))
generator_create ==
    /\ drv = "generator_create"
    /\ threads' = [k \in 1..number_threads |-> NewThread]
    /\ drv' = "generator_start"
    /\ UNCHANGED << ReconcileVars, FederateVars, CleanupVars, caller, kind, item_is_record,
                    number_threads, idx, alive_ret, sigints, api_calls, stop_calls,
                    stopped_upto, join_called, inserted, WorkerVars, tmp_post_count,
                    CurationVars, LastScriptVars >>

\* main(): for tmp_th in tmp_threads: tmp_th.start()
generator_start ==
    /\ drv = "generator_start"
    /\ IF idx > Len(threads)
       THEN /\ drv' = "poll"
            /\ idx' = 1
            /\ UNCHANGED threads
       ELSE /\ threads' = [threads EXCEPT ![idx].pc = "check"]
            /\ idx' = idx + 1
            /\ UNCHANGED drv
    /\ UNCHANGED << ReconcileVars, FederateVars, CleanupVars, caller, kind, item_is_record,
                    number_threads, alive_ret, sigints, api_calls, stop_calls, stopped_upto,
                    join_called, inserted, WorkerVars, tmp_post_count,
                    CurationVars, LastScriptVars >>

\* main(): `while tmp_post_count < len(tmp_file_metas):` and its body, sleep and
\* the sum of the workers' post_count; then the join loop.
generator_poll ==
    /\ drv = "poll"
    /\ IF tmp_post_count < inserted
       THEN /\ tmp_post_count' = sum_post_count(threads)
            /\ UNCHANGED << drv, join_called >>
       ELSE /\ drv' = "join_threads"
            /\ join_called' = TRUE
            /\ UNCHANGED tmp_post_count
    /\ UNCHANGED << ReconcileVars, FederateVars, CleanupVars, caller, kind, item_is_record,
                    number_threads, idx, alive_ret, sigints, api_calls, stop_calls,
                    stopped_upto, inserted, threads, WorkerVars, CurationVars,
                    LastScriptVars >>

\* main() after the queue has been filled (229-238).
InitGenerator ==
    /\ InitPool
    /\ ReconcileIdle
    /\ FederateIdle
    /\ CleanupIdle
    /\ CurationIdle
    /\ LastScriptsIdle
    /\ tmp_post_count = 0
    /\ caller = "main"
    /\ drv = "generator_create"
    /\ kind = "FilePoster"
    /\ item_is_record = TRUE
    /\ login_data = Context(kind, FALSE)
    /\ \E n \in 0..MaxItems :
         /\ work_queue = [i \in 1..n |-> i]
         /\ inserted = n

NextGenerator ==
    \/ generator_create
    \/ generator_start
    \/ generator_poll
    \/ join_threads
    \/ \E w \in Workers : run(w)

SpecGenerator == InitGenerator /\ [][NextGenerator]_vars

\* The scheduler lets every thread that can take a step take one.
FairSpecGenerator ==
    /\ SpecGenerator
    /\ \A w \in 1..MaxThreads : WF_vars(run(w))
    /\ WF_vars(generator_create \/ generator_start \/ generator_poll \/ join_threads)

\* ============================================ create-curation-policies: main()
\* str(n) of the ids that occur.
Decimal ==
    [n \in 0..20 |->
        << "0", "1", "2", "3", "4", "5", "6", "7", "8", "9", "10", "11", "12", "13", "14",
           "15", "16", "17", "18", "19", "20" >>[n + 1]]

\* fix_policy_condition_ids, the loop body: a str condition_id that names exactly
\* one condition becomes str(int(id)) of that condition, an int becomes its str,
\* anything else stays. A policy without condition_id raises KeyError.
fix_policy(policy, input_conditions) ==
    IF ~Has(policy, "condition_id") THEN [policy |-> policy, raised |-> TRUE]
    ELSE IF policy["condition_id"].type = "str"
    THEN LET m == matching(input_conditions, [name |-> policy["condition_id"].s]) IN
         IF Cardinality(m) # 1 THEN [policy |-> policy, raised |-> FALSE]
         ELSE [policy |-> Put(policy, "condition_id",
                              Str(Decimal[input_conditions[CHOOSE i \in m : TRUE]["id"]])),
               raised |-> FALSE]
    ELSE IF policy["condition_id"].type = "int"
    THEN [policy |-> Put(policy, "condition_id", str(policy["condition_id"])),
          raised |-> FALSE]
    ELSE [policy |-> policy, raised |-> FALSE]

\* fix_policy_condition_ids: the list returned, or the KeyError that left it.
RECURSIVE fix_policy_condition_ids(_, _)
fix_policy_condition_ids(input_policies, input_conditions) ==
    IF input_policies = << >> THEN [policies |-> << >>, raised |-> FALSE]
    ELSE LET h == fix_policy(Head(input_policies), input_conditions) IN
         IF h.raised THEN [policies |-> << >>, raised |-> TRUE]
         ELSE LET t == fix_policy_condition_ids(Tail(input_policies), input_conditions) IN
              [policies |-> << h.policy >> \o t.policies, raised |-> t.raised]

\* main(): the conditions have been applied; list_conditions again, list_policies,
\* fix_policy_condition_ids (415-421). compare_policies is next.
main_policies ==
    /\ ekind = "condition"
    /\ rstage = "compared"
    /\ rpos = Len(to_update) + Len(to_create)
    /\ LET current_conditions == server
           fixed == fix_policy_condition_ids(input_data.policies, current_conditions)
       IN /\ other_entities' = current_conditions
          /\ server' = other_entities
          /\ current_list' = other_entities
          /\ input_list' = fixed.policies
          /\ rstage' = IF fixed.raised THEN "raised" ELSE "listed"
    /\ ekind' = "policy"
    /\ rpos' = 0
    /\ to_update' = << >>
    /\ to_create' = << >>
    /\ requests' = << >>
    /\ UNCHANGED << round, input_data, PoolVars, FederateVars, CleanupVars, GeneratorVars,
                    LastScriptVars >>

\* A policy of the input file with the given condition_id.
PolicyFor(name, cid) == Put(Policy(name, TRUE), "condition_id", cid)

\* input_data["policies"]: the condition is given by name, by number, by a name
\* no condition has, or not at all.
InputPolicies ==
    << PolicyFor("p1", Str("c1")),
       PolicyFor("p2", Str("c2")),
       PolicyFor("p1", Num("5")),
       PolicyFor("p2", Str("cx")),
       [name |-> "p1", enabled |-> TRUE] >>

\* The policies list_policies can return.
StoredPolicies ==
    << With(PolicyFor("p1", Str("5")), 7),
       With(PolicyFor("p2", Str("6")), 8) >>

\* input_data["conditions"]
InputConditions ==
    << Condition("c1", "t1", << Param("days", 7) >>),
       Condition("c2", "t1", << Param("days", 7) >>) >>

\* The conditions list_conditions can return; two of them share a name.
StoredConditions ==
    << With(Condition("c1", "t1", << Param("days", 7) >>), 5),
       With(Condition("c1", "t2", << Param("days", 7) >>), 6),
       With(Condition("c2", "t1", << Param("days", 30) >>), 7) >>

\* main() after json.load and the first list_conditions (398-401).
InitCuration ==
    /\ InitPool
    /\ PoolContext
    /\ FederateIdle
    /\ CleanupIdle
    /\ GeneratorIdle
    /\ LastScriptsIdle
    /\ number_threads = 1
    /\ caller = "curation"
    /\ drv = "curation"
    /\ work_queue = << >>
    /\ inserted = 0
    /\ \E cs \in SUBSET (1..Len(InputConditions)),
          ps \in ListsOf(InputPolicies, MaxDesired) :
          input_data = [conditions |-> Pick(InputConditions, cs), policies |-> ps]
    /\ ekind = "condition"
    /\ input_list = input_data.conditions
    /\ server \in StoresOf(StoredConditions, MaxCurrent)
    /\ other_entities \in StoresOf(StoredPolicies, MaxCurrent)
    /\ current_list = server
    /\ to_update = << >>
    /\ to_create = << >>
    /\ rstage = "listed"
    /\ rpos = 0
    /\ round = 1
    /\ requests = << >>

NextCuration == compare_lists \/ send_update \/ send_create \/ main_policies

SpecCuration == InitCuration /\ [][NextCuration]_vars

\* ============================================ random-file-generator: gen_numbers
MaxCount == 2
MaxTotal == 4
MaxSize == 3
MaxGenerated == 4

\* The globals (30-31) and the locals of the gen_numbers call under way.
COUNT_RUNNER == runner.COUNT_RUNNER

SIZE_RUNNER == runner.SIZE_RUNNER

numbers == runner.numbers

gen_args == runner.args

\* "running", "returned", "raised" ("idle": gen_numbers never called)
gen_stage == runner.stage

\* tmp_target_average (40-44): total_size / total_count clamped to min_size..max_size,
\* kept as the fraction num / den.
target_average(a) ==
    IF a.total < a.min_size * a.count THEN [num |-> a.min_size, den |-> 1]
    ELSE IF a.total > a.max_size * a.count THEN [num |-> a.max_size, den |-> 1]
    ELSE [num |-> a.total, den |-> a.count]

\* tmp_start_average (45): int() cuts the running average of non-negative numbers.
start_average == IF COUNT_RUNNER > 0 THEN SIZE_RUNNER \div COUNT_RUNNER ELSE 0

\* tmp_max (48-49)
tmp_max(a) ==
    IF a.total - SIZE_RUNNER < a.max_size THEN a.total - SIZE_RUNNER ELSE a.max_size

\* random.randint(a, b): the values it can return; none when b < a (ValueError).
randint(a, b) == a..b

\* The values tmp_rando can take (51-57); it stays 0 when the averages are equal.
tmp_rando_values(a) ==
    LET t == target_average(a)
        s == start_average
    IN IF t.num < s * t.den THEN randint(a.min_size, s)
       ELSE IF t.num > s * t.den THEN randint(s, tmp_max(a))
       ELSE {0}

\* gen_numbers is called (68-77): the list is empty, the globals are what they were.
gen_numbers ==
    /\ gen_stage \in {"idle", "returned"}
    /\ \E count \in 1..MaxCount, total \in 0..MaxTotal, max_size \in 0..MaxSize :
         \E min_size \in 0..max_size :
            /\ COUNT_RUNNER + count <= MaxGenerated
            /\ runner' = [runner EXCEPT
                             !.args = [count |-> count, total |-> total,
                                       min_size |-> min_size, max_size |-> max_size],
                             !.numbers = << >>,
                             !.stage = "running"]
    /\ UNCHANGED << PoolVars, ReconcileVars, FederateVars, CleanupVars, GeneratorVars,
                    CurationVars, reader, conversion >>

\* One iteration of `for i in range(count)` (78-79): gen_number (36-66) and append.
gen_number ==
    /\ gen_stage = "running"
    /\ IF tmp_rando_values(gen_args) = {}
       THEN runner' = [runner EXCEPT !.stage = "raised"]
       ELSE \E tmp_rando \in tmp_rando_values(gen_args) :
               runner' = [runner EXCEPT
                            !.COUNT_RUNNER = @ + 1,
                            !.SIZE_RUNNER = @ + tmp_rando,
                            !.numbers = Append(@, tmp_rando),
                            !.stage = IF Len(numbers) + 1 = gen_args.count
                                      THEN "returned" ELSE "running"]
    /\ UNCHANGED << PoolVars, ReconcileVars, FederateVars, CleanupVars, GeneratorVars,
                    CurationVars, reader, conversion >>

\* The module after import: both globals are 0 (30-31).
InitNumbers ==
    /\ InitPool
    /\ ReconcileIdle
    /\ FederateIdle
    /\ CleanupIdle
    /\ GeneratorIdle
    /\ CurationIdle
    /\ reader = << >>
    /\ conversion = << >>
    /\ runner = [COUNT_RUNNER |-> 0, SIZE_RUNNER |-> 0, numbers |-> << >>,
                 args |-> << >>, stage |-> "idle"]
    /\ number_threads = 1
    /\ caller = "main"
    /\ drv = "gen_numbers"
    /\ kind = "FilePoster"
    /\ item_is_record = TRUE
    /\ login_data = Context(kind, FALSE)
    /\ work_queue = << >>
    /\ inserted = 0

NextNumbers ==
    \/ gen_numbers
    \/ gen_number

SpecNumbers == InitNumbers /\ [][NextNumbers]_vars

\* ===================================== random-file-generator: RandomDataGenerator
MaxBytes == 8

\* The object, the number of bytes it has handed out since construction, and what
\* the last read() or next() on it returned or raised.
generator == reader.generator

produced == reader.produced

returned == reader.returned

\* os.urandom(n): n bytes of any content.
urandom(n) == [bytes |-> n]

StopIteration == [raised |-> "StopIteration"]

\* __init__ (134-138): int() of the int that gen_numbers produced is that int.
RandomDataGenerator(size) == [size |-> size, len |-> size, remaining |-> size]

\* next (146-150): the object after the call and what the caller gets.
next(self) ==
    IF self.remaining > 0
    THEN [self |-> [self EXCEPT !.remaining = @ - 1], result |-> urandom(1)]
    ELSE [self |-> self, result |-> StopIteration]

read_keeps_remaining(self, size) ==
    IF self.remaining <= 0
    THEN [self |-> self, result |-> urandom(0)]
    ELSE IF size > 0 /\ size < self.remaining
         THEN [self |-> self, result |-> urandom(size)]
         ELSE [self |-> [self EXCEPT !.remaining = 0], result |-> urandom(self.remaining)]

\* read (152-162)
read(self, size) ==
    IF self.remaining <= 0
    THEN [self |-> self, result |-> urandom(0)]
    ELSE IF size > 0 /\ size < self.remaining
         THEN [self |-> [self EXCEPT !.remaining = @ - size], result |-> urandom(size)]
         ELSE [self |-> [self EXCEPT !.remaining = 0], result |-> urandom(self.remaining)]

\* len() of what a call handed out.
handed_out(result) == IF result = StopIteration THEN 0 ELSE result.bytes

\* A caller reads up to n bytes; read() is read(-1).
generator_read ==
    /\ \E n \in (-1)..(MaxBytes + 1) :
         LET r == read(generator, n)
         IN reader' = [generator |-> r.self, returned |-> r.result,
                        produced |-> produced + handed_out(r.result)]
    /\ UNCHANGED << PoolVars, ReconcileVars, FederateVars, CleanupVars, GeneratorVars,
                    CurationVars, runner, conversion >>

\* A caller iterates one step.
generator_next ==
    /\ LET r == next(generator)
       IN reader' = [generator |-> r.self, returned |-> r.result,
                      produced |-> produced + handed_out(r.result)]
    /\ UNCHANGED << PoolVars, ReconcileVars, FederateVars, CleanupVars, GeneratorVars,
                    CurationVars, runner, conversion >>

\* FilePoster.run has built the object for one file (196).
InitData ==
    /\ InitPool
    /\ ReconcileIdle
    /\ FederateIdle
    /\ CleanupIdle
    /\ GeneratorIdle
    /\ CurationIdle
    /\ runner = << >>
    /\ conversion = << >>
    /\ number_threads = 1
    /\ caller = "requests"
    /\ drv = "put"
    /\ kind = "FilePoster"
    /\ item_is_record = TRUE
    /\ login_data = Context(kind, FALSE)
    /\ work_queue = << >>
    /\ inserted = 0
    /\ \E size \in 0..MaxBytes :
         reader = [generator |-> RandomDataGenerator(size), produced |-> 0,
                   returned |-> << >>]

NextData ==
    \/ generator_read
    \/ generator_next

SpecData == InitData /\ [][NextData]_vars

\* ========================================================= federated-to-local-repo
MaxArtifacts == 2

\* An option that was not given on the command line (falsy, like "").
None == << >>

\* A request handed to make_api_request: method, API, repository, JSON body and,
\* for a copy, the artifact and the repository it goes to.
ApiRequest(method, api, repo, data, to, item) ==
    [method |-> method, api |-> api, repo |-> repo, data |-> data, to |-> to, item |-> item]

\* read_repo (118-129): the request it sends
read_repo(repo_name) == ApiRequest("GET", "repositories", repo_name, None, None, 0)

\* create_local_repo (131-143)
create_local_repo(repo_definition) ==
    ApiRequest("PUT", "repositories", repo_definition.key, repo_definition, None, 0)

\* delete_repo (145-154)
delete_repo(repo_name) == ApiRequest("DELETE", "repositories", repo_name, None, None, 0)

\* make_aql_request (76-91) as copy_artifacts_to_repo calls it (194-205)
make_aql_request(source_repo) == ApiRequest("POST", "aql", source_repo, None, None, 0)

\* make_item_copy_request (156-174)
make_item_copy_request(source_repo, destination_repo, item) ==
    ApiRequest("POST", "copy", source_repo, None, destination_repo, item)

\* convert_repo_definition_to_local (93-116): the keys that matter here.
convert_repo_definition_to_local(repo_definition, temporary) ==
    [key |-> repo_definition.key,
     rclass |-> "local",
     xrayIndex |-> IF temporary THEN FALSE ELSE repo_definition.xrayIndex]

\* A repository without the key k.
Without(d, k) == [x \in DOMAIN d \ {k} |-> d[x]]

\* What make_api_request (26-74) gets from the server for a request: the server after
\* it, whether a response body came back (None otherwise: HTTPError and URLError
\* are caught), and the body. `up` is false when the request fails on its way.
serve(srv, r, up) ==
    LET failed == [srv |-> srv, ok |-> FALSE, body |-> << >>]
    IN IF ~up THEN failed
       ELSE IF r.api = "aql"
       THEN [srv |-> srv, ok |-> TRUE,
             body |-> IF Has(srv, r.repo)
                      THEN Pick([i \in 1..(MaxArtifacts + 1) |-> i], srv[r.repo].items)
                      ELSE << >>]
       ELSE IF r.api = "copy"
       THEN IF Has(srv, r.repo) /\ Has(srv, r.to) /\ r.item \in srv[r.repo].items
            THEN [srv |-> [srv EXCEPT ![r.to].items = @ \cup {r.item}],
                  ok |-> TRUE, body |-> << >>]
            ELSE failed
       ELSE IF r.method = "GET"
       THEN IF Has(srv, r.repo)
            THEN [srv |-> srv, ok |-> TRUE, body |-> srv[r.repo].definition]
            ELSE failed
       ELSE IF r.method = "PUT"
       THEN IF Has(srv, r.repo) THEN failed
            ELSE [srv |-> Put(srv, r.repo, [definition |-> r.data, items |-> {}]),
                  ok |-> TRUE, body |-> << >>]
       ELSE IF Has(srv, r.repo)
            THEN [srv |-> Without(srv, r.repo), ok |-> TRUE, body |-> << >>]
            ELSE failed

\* main()'s variables, the server and the request log, fields of `conversion`.
args == conversion.args

\* the artifacts (and the definition) of every repository the server holds
artifactory == conversion.artifactory

source_repo_definition == conversion.source_repo_definition

\* the listing copy_artifacts_to_repo is walking
aql_result == conversion.aql_result

\* main()'s position
mstage == conversion.stage

\* items of aql_result already handed to the copy API
mpos == conversion.pos

\* the requests main() has issued, in order
mcalls == conversion.calls

\* main(): the three names (260-266)
source_repo_name == args.source_repo

destination_repo_name ==
    IF args.destination_repo # None THEN args.destination_repo ELSE source_repo_name

temporary_repo_name ==
    IF source_repo_name = destination_repo_name
    THEN IF args.temporary_repo # None THEN args.temporary_repo
         ELSE Append(source_repo_name, "-temp")
    ELSE None

steps_delete_first(temporary) ==
    IF temporary
    THEN << "read_repo", "create_temporary", "delete_source", "list_temporary",
            "copy_temporary", "create_destination", "list_destination",
            "copy_destination", "remove_repos" >>
    ELSE << "read_repo", "create_destination", "list_destination", "copy_destination",
            "remove_repos" >>

\* main(): the order of its steps with a temporary repository and without (281-339).
steps(temporary) ==
    IF temporary
    THEN << "read_repo", "create_temporary", "list_temporary", "copy_temporary",
            "delete_source", "create_destination", "list_destination",
            "copy_destination", "remove_repos" >>
    ELSE << "read_repo", "create_destination", "list_destination", "copy_destination",
            "remove_repos" >>

\* The step main() goes to when `step` has ended.
following(step) ==
    LET s == steps(temporary_repo_name # None)
        i == CHOOSE j \in 1..Len(s) : s[j] = step
    IN IF i = Len(s) THEN "done" ELSE s[i + 1]

\* main(): the names are worked out; three equal names end the script (260-271).
main_names ==
    /\ mstage = "names"
    /\ conversion' = [conversion EXCEPT
                         !.stage = IF /\ temporary_repo_name # None
                                      /\ temporary_repo_name = destination_repo_name
                                   THEN "exit3" ELSE "read_repo"]
    /\ UNCHANGED << PoolVars, ReconcileVars, FederateVars, CleanupVars, GeneratorVars,
                    CurationVars, runner, reader >>

\* main(): the source repository is read; without it the script ends (281-287).
main_read_repo ==
    /\ mstage = "read_repo"
    /\ \E up \in BOOLEAN :
         LET r == read_repo(source_repo_name)
             resp == serve(artifactory, r, up)
         IN conversion' = [conversion EXCEPT
                             !.calls = Append(@, r),
                             !.artifactory = resp.srv,
                             !.source_repo_definition = resp.body,
                             !.stage = IF resp.ok THEN following("read_repo") ELSE "exit1"]
    /\ UNCHANGED << PoolVars, ReconcileVars, FederateVars, CleanupVars, GeneratorVars,
                    CurationVars, runner, reader >>

\* main(): the temporary (290-297) or the destination (310-314) repository is created;
\* a failure is not looked at.
main_create ==
    /\ mstage \in {"create_temporary", "create_destination"}
    /\ \E up \in BOOLEAN :
         LET temporary == mstage = "create_temporary"
             definition == [convert_repo_definition_to_local(source_repo_definition, temporary)
                              EXCEPT !.key = IF temporary THEN temporary_repo_name
                                             ELSE destination_repo_name]
             r == create_local_repo(definition)
         IN conversion' = [conversion EXCEPT
                             !.calls = Append(@, r),
                             !.artifactory = serve(artifactory, r, up).srv,
                             !.stage = following(mstage)]
    /\ UNCHANGED << PoolVars, ReconcileVars, FederateVars, CleanupVars, GeneratorVars,
                    CurationVars, runner, reader >>

\* The repository a copy step reads and the one it writes (299-303, 317-329).
copy_from(step) ==
    IF step \in {"list_temporary", "copy_temporary"} \/ temporary_repo_name = None
    THEN source_repo_name ELSE temporary_repo_name

copy_to(step) ==
    IF step \in {"list_temporary", "copy_temporary"}
    THEN temporary_repo_name ELSE destination_repo_name

\* copy_artifacts_to_repo (194-209): the listing. None from the request ends the
\* script with TypeError at line 208; an empty listing skips the loop and ends it
\* with ZeroDivisionError at the last logging call (218-220).
main_list ==
    /\ mstage \in {"list_temporary", "list_destination"}
    /\ \E up \in BOOLEAN :
         LET r == make_aql_request(copy_from(mstage))
             resp == serve(artifactory, r, up)
         IN conversion' = [conversion EXCEPT
                             !.calls = Append(@, r),
                             !.artifactory = resp.srv,
                             !.aql_result = resp.body,
                             !.pos = 0,
                             !.stage = IF resp.ok /\ resp.body # << >>
                                       THEN following(mstage) ELSE "raised"]
    /\ UNCHANGED << PoolVars, ReconcileVars, FederateVars, CleanupVars, GeneratorVars,
                    CurationVars, runner, reader >>

\* copy_artifacts_to_repo: one iteration of `for item in aql_result["results"]`
\* (211-217); a failed copy is not looked at.
main_copy ==
    /\ mstage \in {"copy_temporary", "copy_destination"}
    /\ mpos < Len(aql_result)
    /\ \E up \in BOOLEAN :
         LET r == make_item_copy_request(copy_from(mstage), copy_to(mstage),
                                         aql_result[mpos + 1])
         IN conversion' = [conversion EXCEPT
                             !.calls = Append(@, r),
                             !.artifactory = serve(artifactory, r, up).srv,
                             !.pos = @ + 1,
                             !.stage = IF mpos + 1 = Len(aql_result)
                                       THEN following(mstage) ELSE @]
    /\ UNCHANGED << PoolVars, ReconcileVars, FederateVars, CleanupVars, GeneratorVars,
                    CurationVars, runner, reader >>

\* main(): the source repository is deleted (305-307); a failure is not looked at.
main_delete_source ==
    /\ mstage = "delete_source"
    /\ \E up \in BOOLEAN :
         LET r == delete_repo(source_repo_name)
         IN conversion' = [conversion EXCEPT
                             !.calls = Append(@, r),
                             !.artifactory = serve(artifactory, r, up).srv,
                             !.stage = following(mstage)]
    /\ UNCHANGED << PoolVars, ReconcileVars, FederateVars, CleanupVars, GeneratorVars,
                    CurationVars, runner, reader >>

\* main(): --remove-repos deletes the temporary or the source repository (332-339).
main_remove_repos ==
    /\ mstage = "remove_repos"
    /\ IF args.remove_repos
       THEN \E up \in BOOLEAN :
               LET r == delete_repo(IF temporary_repo_name # None
                                    THEN temporary_repo_name ELSE source_repo_name)
               IN conversion' = [conversion EXCEPT
                                   !.calls = Append(@, r),
                                   !.artifactory = serve(artifactory, r, up).srv,
                                   !.stage = following(mstage)]
       ELSE conversion' = [conversion EXCEPT !.stage = following(mstage)]
    /\ UNCHANGED << PoolVars, ReconcileVars, FederateVars, CleanupVars, GeneratorVars,
                    CurationVars, runner, reader >>

SourceRepo == << "a" >>

\* The federated repository as the server describes it.
FederatedDefinition == [key |-> SourceRepo, rclass |-> "federated", xrayIndex |-> TRUE]

\* main() after parse_args (250): the server may hold the source repository with
\* some artifacts.
InitConversion ==
    /\ InitPool
    /\ ReconcileIdle
    /\ FederateIdle
    /\ CleanupIdle
    /\ GeneratorIdle
    /\ CurationIdle
    /\ runner = << >>
    /\ reader = << >>
    /\ number_threads = 1
    /\ caller = "federated-to-local"
    /\ drv = "federated-to-local"
    /\ kind = "none"
    /\ item_is_record = TRUE
    /\ login_data = FederateContext(FALSE)
    /\ work_queue = << >>
    /\ inserted = 0
    /\ \E d \in {None, SourceRepo, << "b" >>}, t \in {None, SourceRepo, << "t" >>},
          rm, exists \in BOOLEAN, items \in SUBSET (1..MaxArtifacts) :
          conversion =
              [args |-> [source_repo |-> SourceRepo, destination_repo |-> d,
                         temporary_repo |-> t, remove_repos |-> rm],
               artifactory |-> IF exists
                               THEN Put(<< >>, SourceRepo,
                                        [definition |-> FederatedDefinition,
                                         items |-> items])
                               ELSE << >>,
               source_repo_definition |-> << >>,
               aql_result |-> << >>,
               stage |-> "names",
               pos |-> 0,
               calls |-> << >>]

NextConversion ==
    \/ main_names
    \/ main_read_repo
    \/ main_create
    \/ main_list
    \/ main_copy
    \/ main_delete_source
    \/ main_remove_repos

SpecConversion == InitConversion /\ [][NextConversion]_vars

\* C11 as stated: a started worker is never started again, its stop flag never
\* goes back to false, and once the flag is true the worker never takes an item
\* from the queue again.
C11_NeverDequeuesAfterStop ==
    [][\A w \in Workers :
          /\ (threads[w].pc # "new" => threads'[w].pc # "new")
          /\ (threads[w].shutdown => threads'[w].shutdown)
          /\ (threads[w].shutdown
                => ~(threads[w].pc = "get" /\ threads'[w].pc = "action"))]_vars

\* C11, amended: a started worker is never started again and a terminated one stays
\* terminated, its stop flag never goes back to false, and once the flag is true
\* the worker never passes its loop test again: it dequeues at most the one item
\* whose get_nowait it had already reached when the flag was set.
C11_StopObservedAtLoopTest ==
    [][\A w \in Workers :
          /\ (threads[w].pc # "new" => threads'[w].pc # "new")
          /\ (Terminated(threads[w]) => threads'[w].pc = threads[w].pc)
          /\ (threads[w].shutdown => threads'[w].shutdown)
          /\ (threads[w].shutdown /\ threads'[w].pc = "get"
                => threads[w].pc = "get")]_vars

C11_Witness ==
    \E w \in stopSeen :
        /\ threads[w].shutdown
        /\ threads[w].pc = "ended"
        /\ stop_calls >= 2
        /\ Len(work_queue) >= 1

\* C12: the shared context (host, token, dry_run, move_to_repo) is only read: no
\* step of a worker, of an adapter or of the pool changes it, so after join it has
\* the value main() gave it before the workers started.
C12_ContextReadOnly == [][login_data' = login_data]_vars

C12_Witness ==
    /\ drv = "exit"
    /\ kind = "ArtifactMover"
    /\ \E i \in Items : sent[i] = << "PUT", "POST" >>

\* The context carries a dry_run flag and it is true.
DryRun == "dry_run" \in DOMAIN login_data /\ login_data.dry_run

\* C13: with dry_run true no adapter issues a request, and every queued item has
\* still been dequeued and handled exactly once when main() is past join_threads.
C13_DryRunNoRequests ==
    DryRun =>
        /\ \A i \in 1..MaxItems : sent[i] = << >>
        /\ (drv = "exit" => \A i \in Items : attempts[i] = 1)

RequestsOf(k) ==
    CASE k = "BuildDeleter" -> << "DELETE" >>
      [] k = "ArtifactDeleter" -> << "DELETE" >>
      [] k = "ArtifactMover" -> << "PUT", "POST" >>
      [] k = "FilePoster" -> << "PUT" >>

IsPrefix(p, q) == Len(p) <= Len(q) /\ SubSeq(q, 1, Len(p)) = p

UniqueNames(l) == \A i, j \in 1..Len(l) : l[i]["name"] = l[j]["name"] => i = j

\* The fields compare_* reads of both entities without testing for them.
RequiredFields(ek) ==
    IF ek = "condition" THEN {"condition_template_id", "param_values"}
    ELSE {"enabled", "scope", "policy_action", "condition_id", "waiver_request_config"}

SetFields ==
    {"repo_exclude", "repo_include", "pkg_types_include", "notify_emails",
     "decision_owners"}

NestedFields == {"waivers", "label_waivers", "param_values"}

ComparedFields(ek) ==
    IF ek = "condition" THEN RequiredFields(ek)
    ELSE RequiredFields(ek) \cup SetFields \cup {"waivers", "label_waivers"}

Complete(ek, e) == RequiredFields(ek) \subseteq DOMAIN e

AllComplete(ek, l) == \A i \in 1..Len(l) : Complete(ek, l[i])

\* compare_* has just been called: nothing sent yet, the server still holds the
\* list that was passed as current_list.
AfterCompare == rstage \in {"compared", "raised"} /\ rpos = 0

Returned == rstage = "compared" /\ rpos = 0

\* C15: for input and current lists with unique names (and every required field),
\* compare returns, and after its updates and creates have been applied and the
\* entities listed again, the next compare returns two empty lists.
C15_ReconcileIdempotent ==
    (/\ AfterCompare
     /\ UniqueNames(input_list) /\ UniqueNames(server)
     /\ AllComplete(ekind, input_list) /\ AllComplete(ekind, server))
        => /\ rstage = "compared"
           /\ (round >= 2 => to_update = << >> /\ to_create = << >>)

\* C16: compare_* leaves current_list and its entities as they were listed, and a
\* second call on the same lists returns the same two lists.
C16_ComparePure ==
    AfterCompare =>
        /\ current_list = server
        /\ (rstage = "compared" =>
              LET again == compare(ekind, input_list, current_list) IN
              /\ ~again.raised
              /\ again.update = to_update
              /\ again.create = to_create)

\* A field of the desired entity d differs from the current entity c.
SubDiffers(f, a, b) ==
    IF f = "param_values" THEN a # b
    ELSE \E g \in DOMAIN a :
            IF g = "pkg_versions" THEN Range(a[g]) # Range(b[g]) ELSE a[g] # b[g]

FieldDiffers(f, d, c) ==
    IF ~Has(c, f) THEN TRUE
    ELSE IF f \in SetFields THEN Range(d[f]) # Range(c[f])
    ELSE IF f \in NestedFields
    THEN \E k \in 1..Len(d[f]) :
            LET m == sub_matches(c[f], sub_id(f), d[f][k][sub_id(f)]) IN
            Cardinality(m) # 1 \/ SubDiffers(f, d[f][k], c[f][CHOOSE i \in m : TRUE])
    ELSE d[f] # c[f]

DifferingFields(ek, d, c) ==
    {f \in ComparedFields(ek) \cap DOMAIN d : FieldDiffers(f, d, c)}

\* The current entity with the differing fields overwritten by the desired values.
Overlay(ek, d, c) ==
    [f \in DOMAIN c \cup DifferingFields(ek, d, c) |->
        IF f \in DifferingFields(ek, d, c) THEN d[f] ELSE c[f]]

\* C17: one desired entity (with every required field and no nested list) with a
\* single match from which it differs in a compared field: the update list is the
\* current entity with exactly the differing fields overwritten.
C17_UpdateIsOverlay ==
    (/\ AfterCompare /\ round = 1
     /\ Len(input_list) = 1 /\ Len(server) = 1
     /\ matching(server, input_list[1]) = {1}
     /\ Complete(ekind, input_list[1]) /\ Complete(ekind, server[1])
     /\ DOMAIN input_list[1] \cap {"waivers", "label_waivers"} = {}
     /\ DifferingFields(ekind, input_list[1], server[1]) # {})
        => /\ rstage = "compared"
           /\ to_update = << Overlay(ekind, input_list[1], server[1]) >>
           /\ to_create = << >>

NoMatch(d) == matching(server, d) = {}

\* C18: the create list is the desired entities without a match, unchanged and in
\* desired order; no entry of the update list has the name of one of them; with an
\* empty current list the create list is the desired list and the update list is
\* empty.
C18_NewEntitiesCreated ==
    Returned =>
        /\ to_create = SelectSeq(input_list, NoMatch)
        /\ \A j \in 1..Len(to_update) : ~NoMatch(to_update[j])
        /\ (server = << >> => to_create = input_list /\ to_update = << >>)

C18_Witness ==
    /\ Returned
    /\ Len(to_create) = 2
    /\ to_create[1] # to_create[2]
    /\ \/ server = << >>
       \/ Len(to_update) = 1

\* d has a single match and equals it on every field d mentions.
EqualToMatch(d) ==
    /\ Cardinality(matching(server, d)) = 1
    /\ LET c == server[CHOOSE i \in matching(server, d) : TRUE] IN
       \A f \in DOMAIN d : Has(c, f) /\ d[f] = c[f]

AllEqualToMatch ==
    /\ input_list # << >>
    /\ \A k \in 1..Len(input_list) : EqualToMatch(input_list[k])

SubIdsUnique(d) ==
    \A f \in NestedFields \cap DOMAIN d :
        \A i, j \in 1..Len(d[f]) :
            /\ Has(d[f][i], sub_id(f))
            /\ (d[f][i][sub_id(f)] = d[f][j][sub_id(f)] => i = j)

Ambiguous(d) == Cardinality(matching(server, d)) > 1

Unambiguous(d) == ~Ambiguous(d)

\* C20: a desired entity with more than one match is in neither list, and the
\* call does to the other desired entities and to current_list exactly what it
\* does when the ambiguous entities are left out of the desired list.
C20_AmbiguousSkipped ==
    AfterCompare =>
        LET rest == compare(ekind, SelectSeq(input_list, Unambiguous), server) IN
        /\ rest.raised = (rstage = "raised")
        /\ rest.current = current_list
        /\ rstage = "compared" =>
              /\ rest.update = to_update
              /\ rest.create = to_create
              /\ \A k \in 1..Len(input_list) :
                    Ambiguous(input_list[k]) =>
                        /\ \A j \in 1..Len(to_create) :
                              to_create[j]["name"] # input_list[k]["name"]
                        /\ \A j \in 1..Len(to_update) :
                              to_update[j]["name"] # input_list[k]["name"]

C20_Witness ==
    /\ Returned
    /\ \E k \in 1..Len(input_list) : Ambiguous(input_list[k])
    /\ Len(to_create) = 1

\* d has a single match and equals it on every field d mentions, the set-valued
\* fields as sets.
SetEqualToMatch(d) ==
    /\ Cardinality(matching(server, d)) = 1
    /\ LET c == server[CHOOSE i \in matching(server, d) : TRUE] IN
       \A f \in DOMAIN d :
           /\ Has(c, f)
           /\ IF f \in SetFields THEN Range(d[f]) = Range(c[f]) ELSE d[f] = c[f]

\* d holds f with the elements of its match in another order.
Reordered(d, f) ==
    /\ Has(d, f)
    /\ LET c == server[CHOOSE i \in matching(server, d) : TRUE] IN
       Has(c, f) /\ d[f] # c[f] /\ Range(d[f]) = Range(c[f])

\* C21: desired entities that differ from their single matches only in the order
\* of the elements of set-valued fields (repo_exclude, repo_include,
\* pkg_types_include, notify_emails, decision_owners) give an empty update list
\* and an empty create list, and current_list is not written.
C21_SetFieldsAsSets ==
    (/\ AfterCompare /\ round = 1 /\ input_list # << >>
     /\ \A k \in 1..Len(input_list) :
            /\ SetEqualToMatch(input_list[k])
            /\ Complete(ekind, input_list[k]) /\ SubIdsUnique(input_list[k]))
        => /\ rstage = "compared" /\ to_update = << >> /\ to_create = << >>
           /\ current_list = server

C21_Witness ==
    /\ Returned /\ round = 1 /\ input_list # << >>
    /\ \A k \in 1..Len(input_list) : SetEqualToMatch(input_list[k])
    /\ \A f \in SetFields : \E k \in 1..Len(input_list) : Reordered(input_list[k], f)

\* The compared fields the desired entity d has and the current entity c lacks.
LackingFields(ek, d, c) == (ComparedFields(ek) \cap DOMAIN d) \ DOMAIN c

\* C22: one desired entity with a single match that lacks a compared field the
\* desired entity has: the update list is one entry, which carries the desired
\* value of every such field.
C22_LackingFieldIsDifference ==
    (/\ AfterCompare /\ round = 1
     /\ Len(input_list) = 1 /\ Len(server) = 1
     /\ matching(server, input_list[1]) = {1}
     /\ LackingFields(ekind, input_list[1], server[1]) # {})
        => /\ rstage = "compared"
           /\ Len(to_update) = 1
           /\ \A f \in LackingFields(ekind, input_list[1], server[1]) :
                 Has(to_update[1], f) /\ to_update[1][f] = input_list[1][f]

\* The compared fields the desired entity d does not mention.
OmittedFields(ek, d) == ComparedFields(ek) \ DOMAIN d

\* C23, for one desired entity that omits optional fields only, against a single
\* complete match that has every nested list the desired entity has: the call
\* does not raise, an update entry has the current entity's value of every
\* omitted field (or lacks it as the current entity does), and there is no update
\* when the mentioned fields are equal.
C23_OmittedFieldUntouched ==
    (/\ AfterCompare /\ round = 1
     /\ Len(input_list) = 1 /\ Len(server) = 1
     /\ matching(server, input_list[1]) = {1}
     /\ Complete(ekind, input_list[1]) /\ Complete(ekind, server[1])
     /\ LackingFields(ekind, input_list[1], server[1]) \subseteq SetFields
     /\ OmittedFields(ekind, input_list[1]) # {})
        => /\ rstage = "compared"
           /\ \A j \in 1..Len(to_update) :
                 \A f \in OmittedFields(ekind, input_list[1]) :
                     /\ Has(to_update[j], f) = Has(server[1], f)
                     /\ Has(server[1], f) => to_update[j][f] = server[1][f]
           /\ SetEqualToMatch(input_list[1]) => to_update = << >>

\* The nested lists of d in which some item has exactly one id match in the
\* current entity c and differs from it in at least one field.
ChangedSubLists(d, c) ==
    {f \in NestedFields \cap DOMAIN d \cap DOMAIN c :
        \E k \in 1..Len(d[f]) :
            LET m == sub_matches(c[f], sub_id(f), d[f][k][sub_id(f)]) IN
            /\ Cardinality(m) = 1
            /\ SubDiffers(f, d[f][k], c[f][CHOOSE i \in m : TRUE])}

\* C24: one complete desired entity with a single complete match, and a nested
\* item that differs from its only id match in some field: the update list is
\* one entry, with that nested list taken from the desired entity.
C24_AnySubFieldDiffers ==
    (/\ AfterCompare /\ round = 1
     /\ Len(input_list) = 1 /\ Len(server) = 1
     /\ matching(server, input_list[1]) = {1}
     /\ Complete(ekind, input_list[1]) /\ Complete(ekind, server[1])
     /\ ChangedSubLists(input_list[1], server[1]) # {})
        => /\ rstage = "compared"
           /\ Len(to_update) = 1
           /\ \A f \in ChangedSubLists(input_list[1], server[1]) :
                 to_update[1][f] = input_list[1][f]

\* C24 for conditions: a param_value with one id match and another value puts the
\* condition in the update list with the desired param_values.
C24_ParamValueDiffers ==
    (/\ AfterCompare /\ round = 1 /\ ekind = "condition"
     /\ Len(input_list) = 1 /\ Len(server) = 1
     /\ matching(server, input_list[1]) = {1}
     /\ Complete(ekind, input_list[1]) /\ Complete(ekind, server[1])
     /\ ChangedSubLists(input_list[1], server[1]) # {})
        => /\ rstage = "compared"
           /\ Len(to_update) = 1
           /\ to_update[1]["param_values"] = input_list[1]["param_values"]

\* The nested lists of d, present in the current entity c, in which some item
\* has no id match or more than one in c.
UnmatchedSubLists(d, c) ==
    {f \in NestedFields \cap DOMAIN d \cap DOMAIN c :
        \E k \in 1..Len(d[f]) :
            Cardinality(sub_matches(c[f], sub_id(f), d[f][k][sub_id(f)])) # 1}

NamesOf(l) == {l[i]["name"] : i \in 1..Len(l)}

\* The outcome of a desired entity, read from the two lists returned.
Created(d) == d["name"] \in NamesOf(to_create)

Updated(d) == d["name"] \in NamesOf(to_update)

\* C26: for a desired list with unique names, when the call returns: no name is
\* twice in the create list or twice in the update list, no name is in both, an
\* entity without a match is created and not updated, an entity with more than
\* one match is in neither list, and an entity with one match is updated or left
\* alone, never created. With unique current names no entity is skipped.
C26_OutputsDisjoint ==
    (Returned /\ UniqueNames(input_list)) =>
        /\ UniqueNames(to_create) /\ UniqueNames(to_update)
        /\ NamesOf(to_create) \cap NamesOf(to_update) = {}
        /\ \A k \in 1..Len(input_list) :
              LET d == input_list[k] IN
              /\ NoMatch(d) => Created(d) /\ ~Updated(d)
              /\ Ambiguous(d) => ~Created(d) /\ ~Updated(d)
              /\ (~NoMatch(d) /\ ~Ambiguous(d)) => ~Created(d)
        /\ (UniqueNames(server) => \A k \in 1..Len(input_list) : ~Ambiguous(input_list[k]))

C26_Witness ==
    /\ Returned /\ round = 1
    /\ UniqueNames(input_list) /\ UniqueNames(server)
    /\ Len(input_list) = 2 /\ Len(server) = 1
    /\ Len(to_create) = 1 /\ Len(to_update) = 1

\* The requests main() makes for the two lists: a PUT for each entry of the update
\* list, then a POST for each entry of the create list, in list order.
RequestsFor(upd, cre) ==
    [j \in 1..Len(upd) |-> Request("PUT", upd[j])]
        \o [j \in 1..Len(cre) |-> Request("POST", cre[j])]

\* C27: at every moment after the comparison the requests issued are the first
\* rpos of: one PUT per update entry in list order, then one POST per create entry
\* in list order; when the loops are done their number is
\* len(toUpdate) + len(toCreate). A comparison that raised sends nothing.
C27_OneCallPerEntry ==
    /\ rstage = "compared" =>
          /\ rpos <= Len(to_update) + Len(to_create)
          /\ requests = SubSeq(RequestsFor(to_update, to_create), 1, rpos)
    /\ rstage \in {"listed", "raised"} => requests = << >>

\* C27, as steps: a step issues at most one request, and never takes one back.
C27_OneCallPerStep ==
    [][rstage' = "compared" =>
          \/ requests' = requests
          \/ /\ Len(requests') = Len(requests) + 1
             /\ SubSeq(requests', 1, Len(requests)) = requests]_vars

C27_Witness ==
    /\ rstage = "compared"
    /\ Len(to_update) = 1 /\ Len(to_create) = 1
    /\ rpos = 2
    /\ requests = << Request("PUT", to_update[1]), Request("POST", to_create[1]) >>

\* The script has gone through both of its loops.
ScriptEnded == fstage = "update" /\ fpos = Len(updates_of(local_repos))

Memberships(rp) == [i \in 1..Len(rp.VIRTUAL) |-> rp.VIRTUAL[i]["repositories"]]

\* C28: in a run that follows a run, no PUT creates a federated repository and the
\* membership list of every virtual repository stays as the run read it.
C28_SecondRunConverges ==
    runs >= 2 =>
        /\ \A i \in 1..Len(fcalls) : fcalls[i].method # "PUT"
        /\ Memberships(repos) = Memberships(all_repos)

\* C28, first half only: a run that follows a run that was not a dry run creates
\* no federated repository.
C28_NoFederatedCreatedAgain ==
    runs >= 2 => \A i \in 1..Len(fcalls) : fcalls[i].method # "PUT"

\* C29: when a run that is not a dry run has ended, every virtual repository
\* lists the federated key of every local repository it lists.
C29_EveryFederatedKeyListed ==
    (ScriptEnded /\ login_data.dry_run = FALSE) =>
        \A i \in 1..Len(repos.VIRTUAL) :
            \A k \in KeysOf(repos.LOCAL) \cap Range(repos.VIRTUAL[i]["repositories"]) :
                federated_key(k) \in Range(repos.VIRTUAL[i]["repositories"])

\* C29 for virtual repositories that list one local repository.
C29_SingleLocalListed ==
    (ScriptEnded /\ login_data.dry_run = FALSE) =>
        \A i \in 1..Len(repos.VIRTUAL) :
            LET locals == KeysOf(repos.LOCAL) \cap Range(repos.VIRTUAL[i]["repositories"])
            IN Cardinality(locals) = 1 =>
                  \A k \in locals : federated_key(k) \in Range(repos.VIRTUAL[i]["repositories"])

\* The items main() has put in the queue so far.
ItemsPut == handed \o cqueue

\* The items of the queue that cover the build (name, number).
Covering(b) ==
    {i \in 1..Len(ItemsPut) :
        /\ ItemsPut[i].type = "dict"
        /\ ItemsPut[i].d.name = b.name
        /\ str(b.number) \in ItemsPut[i].d.numbers}

\* C30: once main() has queued the builds, every item is a record {name, numbers},
\* no two items have the same name, the numbers of an item are exactly the numbers
\* listed for its name, and every listed build is covered by exactly one item.
C30_OneRecordPerName ==
    cstage = "running" =>
        /\ \A i \in 1..Len(ItemsPut) :
              /\ ItemsPut[i].type = "dict"
              /\ ItemsPut[i].d.numbers =
                     {str(builds_to_delete_list[k].number) :
                         k \in {j \in 1..Len(builds_to_delete_list) :
                                   builds_to_delete_list[j].name = ItemsPut[i].d.name}}
              /\ \A j \in 1..Len(ItemsPut) :
                     ItemsPut[i].d.name = ItemsPut[j].d.name => i = j
        /\ \A k \in 1..Len(builds_to_delete_list) :
              Cardinality(Covering(builds_to_delete_list[k])) = 1

\* C30 for the dict reorganise_builds returns: one value per distinct name, in
\* order of first listing, with exactly the numbers listed for that name.
C30_ReorganisedByName ==
    cstage \in {"queueing", "running"} =>
        /\ \A i, j \in 1..Len(builds_to_delete) :
              builds_to_delete[i].name = builds_to_delete[j].name => i = j
        /\ {builds_to_delete[i].name : i \in 1..Len(builds_to_delete)}
              = {builds_to_delete_list[k].name : k \in 1..Len(builds_to_delete_list)}
        /\ \A i \in 1..Len(builds_to_delete) :
              builds_to_delete[i].numbers =
                 {str(builds_to_delete_list[k].number) :
                     k \in {j \in 1..Len(builds_to_delete_list) :
                               builds_to_delete_list[j].name = builds_to_delete[i].name}}

\* C30 for what is queued: one item per distinct name, and it is the name.
C30_NamesQueued ==
    cstage = "running" =>
        ItemsPut = [i \in 1..Len(builds_to_delete) |-> Str(builds_to_delete[i].name)]

\* stop_threads has set the stop flag of every worker of the pool.
AllStopped == Workers # {} /\ \A w \in Workers : threads[w].shutdown

\* The workers that have passed the loop test and not yet called get_nowait.
AtGet == {w \in Workers : threads[w].pc = "get"}

\* C35: once every worker's flag is set, a step dequeues at most one item and only
\* by a worker that had passed its loop test, no worker passes the test again (so
\* the dequeues still to come are at most the workers at get_nowait, at most P),
\* and a worker whose action ends goes to the loop test or dies, and from the loop
\* test only to the end of run().
C35_AtMostOneMoreDequeue ==
    [][AllStopped =>
          /\ removed' + Cardinality(AtGet') <= removed + Cardinality(AtGet)
          /\ Cardinality(AtGet) <= number_threads
          /\ \A w \in Workers :
                /\ (threads[w].pc = "action"
                      => threads'[w].pc \in {"action", "check", "crashed"})
                /\ (threads[w].pc = "check" => threads'[w].pc \in {"check", "ended"})
                /\ (Terminated(threads[w]) => threads'[w].pc = threads[w].pc)]_vars

\* C35, liveness: once every worker's flag is set, every worker terminates.
C35_StoppedWorkersTerminate == AllStopped ~> AllTerminated

C35_Witness ==
    /\ AllStopped /\ AllTerminated
    /\ stop_calls >= 1
    /\ number_threads = 2
    /\ Len(work_queue) >= 1
    /\ \A w \in Workers : w \in stopSeen /\ threads[w].calls >= 1

\* The items a live worker has dequeued and whose action has not ended.
HeldItems == {threads[w].held : w \in {v \in Workers : threads[v].pc = "action"}}

\* The items whose action has ended, by returning or by raising.
Processed == finished \cup raisedOn

\* The items in the queue.
Queued == Range(work_queue)

\* C36: after main() has filled the queue, in every state the N items are split
\* into the queued ones, the ones held by a worker and the processed ones: the
\* three sets are disjoint, no item is twice in the queue or held by two workers,
\* and their sizes add up to N; once the workers have ended (after stop and join
\* too) nothing is held.
C36_WorkConserved ==
    drv # "populate" =>
        /\ Queued \cup HeldItems \cup Processed = Items
        /\ Queued \cap HeldItems = {} /\ Queued \cap Processed = {}
        /\ HeldItems \cap Processed = {}
        /\ Cardinality(Queued) = Len(work_queue)
        /\ Cardinality(HeldItems) = Cardinality({w \in Workers : threads[w].pc = "action"})
        /\ Len(work_queue) + Cardinality(HeldItems) + Cardinality(Processed) = inserted
        /\ removed = Cardinality(HeldItems) + Cardinality(Processed)
        /\ (drv = "exit" /\ join_called
               => Cardinality(Processed) + Len(work_queue) = inserted)

C36_Witness ==
    /\ drv = "exit" /\ join_called
    /\ stop_calls >= 1
    /\ inserted = 3
    /\ Len(work_queue) = 1
    /\ Cardinality(finished) = 1 /\ Cardinality(raisedOn) = 1

\* The step starts the action on item i (the items carry their insertion number).
ActionStarts(i) == attempts'[i] > attempts[i]

\* The step is a dequeue by worker w.
Dequeues(w) == threads[w].pc = "get" /\ threads'[w].pc = "action"

\* C37 as stated: an action starts on an item only when the action has started on
\* every item inserted (and so dequeued) before it, whatever the number of workers.
C37_StartedInDequeueOrder ==
    [][\A i \in Items : ActionStarts(i) => \A j \in 1..(i - 1) : attempts[j] >= 1]_vars

\* C37, amended: items are dequeued in insertion order, each once, whatever the
\* number of workers; with one worker an action starts on an item only when the
\* action on every earlier item has ended.
C37_FifoWithOneWorker ==
    [][/\ \A w \in Workers :
            Dequeues(w) => /\ threads'[w].held = removed + 1
                           /\ removed' = removed + 1
       /\ number_threads = 1 =>
            \A i \in Items : ActionStarts(i) => \A j \in 1..(i - 1) : j \in Processed]_vars

\* Two workers: the second item's action has ended, the first item's has not begun.
C37_OutOfOrderReached ==
    /\ number_threads = 2
    /\ 2 \in finished
    /\ attempts[1] = 0
    /\ \E w \in Workers : threads[w].pc = "action" /\ threads[w].held = 1

\* One worker has processed three items.
C37_OneWorkerWitness ==
    /\ number_threads = 1
    /\ finished = {1, 2, 3}

\* main() of the file generator has returned from the last join.
GeneratorExited == kind = "FilePoster" /\ drv = "exit" /\ join_called

\* C33: main() eventually leaves its polling loop and returns from the joins, and
\* from then on the sum of post_count over the workers is the number of items
\* queued.
C33_PollingEnds ==
    /\ <>GeneratorExited
    /\ [](GeneratorExited => sum_post_count(threads) = inserted)

\* C33, the second half alone: when main() has joined the workers, the sum of
\* post_count is the number of items queued, every item was put once, and the
\* queue is empty.
C33_SumAfterJoin ==
    GeneratorExited =>
        /\ sum_post_count(threads) = inserted
        /\ finished = Items
        /\ work_queue = << >>

\* C33: the sum main() computes is never more than the puts that have returned.
C33_SumNeverAhead == tmp_post_count <= Cardinality(finished)

\* A str of decimal digits.
NumericString(v) == v.type = "str" /\ \E n \in DOMAIN Decimal : v.s = Decimal[n]

\* compare_policies is about to be called, or has been.
PoliciesPassed == ekind = "policy" /\ rstage \in {"listed", "compared"}

\* C32: every policy passed to compare_policies has a condition_id that is a
\* string of digits.
C32_NumericConditionIds ==
    PoliciesPassed =>
        \A k \in 1..Len(input_list) : NumericString(input_list[k]["condition_id"])

\* C32, the order of main(): the policies are fixed and compared only after every
\* update and create of the conditions has been sent, against the conditions the
\* server holds then.
C32_ConditionsFirst ==
    [][(ekind = "condition" /\ ekind' = "policy")
          => /\ rstage = "compared"
             /\ rpos = Len(to_update) + Len(to_create)
             /\ other_entities' = server]_vars

\* C32, what fix_policy_condition_ids does: the policies are passed in file order,
\* a name with exactly one stored condition has become that condition's id as a
\* string of digits, an int has become its str, the other policies and all other
\* fields are as in the file.
C32_FixedIds ==
    PoliciesPassed =>
        /\ Len(input_list) = Len(input_data.policies)
        /\ \A k \in 1..Len(input_list) :
              LET p == input_data.policies[k]
                  cid == p["condition_id"]
                  m == {i \in 1..Len(other_entities) : other_entities[i]["name"] = cid.s}
              IN input_list[k] =
                    IF cid.type = "int" THEN Put(p, "condition_id", Str(cid.s))
                    ELSE IF Cardinality(m) = 1
                    THEN Put(p, "condition_id",
                             Str(Decimal[other_entities[CHOOSE i \in m : TRUE]["id"]]))
                    ELSE p


\* C34: every number in the list gen_numbers builds lies in min_size..max_size.
C34_NumbersInRange ==
    \A i \in 1..Len(numbers) : numbers[i] \in gen_args.min_size..gen_args.max_size

\* C34, second part: the running total SIZE_RUNNER never exceeds total.
C34_RunnerWithinTotal ==
    gen_stage # "idle" => SIZE_RUNNER <= gen_args.total

\* C34, third part: no gen_number call fails on an empty random range.
C34_NoEmptyRange == gen_stage # "raised"

\* C34 with arguments like the script's own (min_size <= total / count <= max_size,
\* min_size > 0) and in the first call of gen_numbers: a number below min_size.
C34_FirstCallInRange ==
    (/\ gen_stage # "idle"
     /\ COUNT_RUNNER = Len(numbers)
     /\ gen_args.min_size > 0
     /\ gen_args.min_size * gen_args.count <= gen_args.total
     /\ gen_args.total <= gen_args.max_size * gen_args.count)
        => C34_NumbersInRange

\* C38: remaining stays within 0..S and the bytes handed out are S - remaining.
C38_Accounting ==
    /\ generator.remaining \in 0..generator.size
    /\ produced = generator.size - generator.remaining

\* C38: once remaining is 0, a read returns nothing and next() raises StopIteration.
C38_ExhaustedStep ==
    generator.remaining = 0 =>
        /\ returned' \in {urandom(0), StopIteration}
        /\ produced' = produced
        /\ generator' = generator

\* C38: after any sequence of read(n) and next() calls the accounting holds and an
\* exhausted generator hands out nothing more, so exactly S bytes are produced.
C38_ExactlySBytes == []C38_Accounting /\ [][C38_ExhaustedStep]_vars

\* A generator of several bytes was read to its end and then read again.
C38_Witness ==
    /\ drv = "put"
    /\ generator.size > 1
    /\ generator.remaining = 0
    /\ produced = generator.size
    /\ returned = urandom(0)


\* Positions in mcalls of the requests of one sort.
CopiesTo(repo) ==
    {i \in 1..Len(mcalls) : mcalls[i].api = "copy" /\ mcalls[i].to = repo}

Creations(repo) ==
    {i \in 1..Len(mcalls) : mcalls[i].method = "PUT" /\ mcalls[i].repo = repo}

Deletions(repo) ==
    {i \in 1..Len(mcalls) : mcalls[i].method = "DELETE" /\ mcalls[i].repo = repo}

\* Every request of the first set was issued before every request of the second,
\* and the second has none unless the first has one.
Before(A, B) ==
    /\ \A i \in A, j \in B : i < j
    /\ B # {} => A # {}

\* C31: with equal source and destination names the requests come in the order
\* create temporary, copies to temporary, delete source, create destination, copies
\* to destination; with three equal names no request is issued.
C31_StepsInOrder ==
    /\ source_repo_name = destination_repo_name =>
          /\ Before(Creations(temporary_repo_name), CopiesTo(temporary_repo_name))
          /\ Before(CopiesTo(temporary_repo_name), Deletions(source_repo_name))
          /\ Before(Deletions(source_repo_name), Creations(destination_repo_name))
          /\ Before(Creations(destination_repo_name), CopiesTo(destination_repo_name))
    /\ temporary_repo_name = destination_repo_name => mcalls = << >>

\* C31: the step that issues the delete of the source finds a copy request to the
\* temporary repository for every artifact the source holds.
C31_DeleteAfterEveryCopy ==
    (/\ source_repo_name = destination_repo_name
     /\ Deletions(source_repo_name) = {}
     /\ Len(mcalls') > Len(mcalls)
     /\ mcalls'[Len(mcalls')] = delete_repo(source_repo_name))
        => /\ Has(artifactory, source_repo_name)
           /\ \A item \in artifactory[source_repo_name].items :
                 \E i \in CopiesTo(temporary_repo_name) :
                    mcalls[i].repo = source_repo_name /\ mcalls[i].item = item

\* C31: the conversion under equal names keeps the order of its steps, and the
\* source is deleted only after the last copy request to the temporary repository.
C31_ConversionOrder == []C31_StepsInOrder /\ [][C31_DeleteAfterEveryCopy]_vars

\* A conversion under one name has gone through all of its steps with two artifacts.
C31_Witness ==
    /\ mstage = "done"
    /\ source_repo_name = destination_repo_name
    /\ Cardinality(CopiesTo(temporary_repo_name)) = MaxArtifacts
    /\ Cardinality(CopiesTo(destination_repo_name)) = MaxArtifacts
    /\ Deletions(source_repo_name) # {}

\* Three equal names have ended the script.
C31_ThreeEqualNamesExit ==
    mstage = "exit3" /\ args.temporary_repo = args.source_repo

====
